---- MODULE Spec2Model ----
(***************************************************************************)
(* Model of the agent conversation loop of merco-agents (Agent::call and   *)
(* Agent::execute_with_llm) over the provider-neutral protocol of          *)
(* merco-llmproxy.  Text is modelled as a sequence of tokens, so that      *)
(* format! and join are concatenations and "contains" is a sub-sequence    *)
(* test.  Option<T> is modelled as a sequence of length 0 (None) or 1      *)
(* (Some).  A second group of variables models one call of                 *)
(* OpenAIProvider::completion or completion_stream and the streaming       *)
(* response the latter returns (specification SpecProvider).               *)
(***************************************************************************)
EXTENDS Naturals, Sequences, FiniteSets, TLC

VARIABLES
    task,          \* the Task passed to Agent::call
    pc,            \* position of Agent::call: loop, await, inflight, tools, validate, done
    attempt,       \* the loop variable of `for attempt in 1..=MAX_RETRIES`
    messages,      \* the transcript (`let mut messages`)
    request,       \* messages of the completion request in flight (<<>> when none is)
    tool_calls,    \* the call list being iterated by `for call in tool_calls`
    next_call,     \* index of the next call of tool_calls to execute
    raw_result,    \* Option: the content returned by execute_with_llm
    result,        \* Option: the value Agent::call returned
    \* ---- observation (history) variables, never read by the program ----
    nSeeds,        \* number of seed constructions
    nRequests,     \* number of completion requests issued in this call
    reqInAttempt,  \* number of completion requests issued in this attempt
    rounds,        \* number of ToolCall results received in this call
    nValidations,  \* number of validate_output calls
    validated,     \* Option: [text, attempt, verdict] of this attempt's validate_output call
    executed,      \* [call, outcome] of the execute_tool calls made for the current ToolCall
                   \* result, in order
    lastEnd        \* how the attempt that ended last ended: kind none/provider/validation/ok,
                   \* its error text and its number

\* one call of OpenAIProvider::completion or OpenAIProvider::completion_stream, and
\* the streaming response the latter returns
VARIABLES
    config_provider,      \* self.config.provider
    op,                   \* the method called: none, completion, completion_stream
    req_tools,            \* Option: request.tools
    ppc,                  \* position of the call: idle, sent (HTTP request in flight), returned
    ret,                  \* Option: the value the call returned
    tool_call_aggregator, \* Option: the HashMap<usize, ToolCallStreamDelta> behind the
                          \* Arc<Mutex>, as the set of its values (each carries its index);
                          \* None while it has not been created
    emitted,              \* the items the returned stream has yielded, in order
    \* ---- observation (history) variables, never read by the program ----
    http_requests,        \* number of HTTP requests sent by the call
    http_response,        \* Option: the HTTP response the call received
    received              \* the transport chunks the byte stream has delivered, in order;
                          \* each is the sequence of its `data: ` lines

agent_vars == <<task, pc, attempt, messages, request, tool_calls, next_call, raw_result,
                result, nSeeds, nRequests, reqInAttempt, rounds, nValidations, validated,
                executed, lastEnd>>

provider_vars == <<config_provider, op, req_tools, ppc, ret, tool_call_aggregator, emitted,
                   http_requests, http_response, received>>

\* several streams returned by completion_stream calls on one provider, and
\* several Agent::call invocations on one Agent, in progress at the same time
VARIABLES
    streams,   \* per stream: spc (none, streaming, ended), tool_call_aggregator (Option:
               \* the map created by the call that returned the stream), emitted,
               \* received
    invocations  \* per invocation: the locals of Agent::call and execute_with_llm (task,
               \* pc, attempt, messages, request, tool_calls, next_call, raw_result,
               \* result) and, never read by the program, rounds (ToolCall results
               \* received) and pushed (the messages this invocation built, in order,
               \* since its attempt began)

concurrent_vars == <<streams, invocations>>

\* how a provider is obtained from a configuration, and how a Crew runs its tasks
VARIABLES
    factory,   \* one get_provider call: pc (none, called, validated, returned,
               \* panicked), config (the LlmConfig passed), ret (Option: the Result
               \* returned), panic (Option: the message of the panic that ended
               \* the call) and, never read by the program, constructed (the
               \* configurations a provider constructor received, in order)
    crew       \* one Crew::run call: the Crew's fields (agents, as their number;
               \* tasks; workflow), pc (none, called, loop, awaiting, returned), the
               \* locals of run_sequential (next: index of the loop's task;
               \* current_task, current_task_output, results), ret (Option: the
               \* Result returned) and, never read by the program, called (the agent
               \* index and the task of every Agent::call made, in order)

assembly_vars == <<factory, crew>>

vars == <<agent_vars, provider_vars, concurrent_vars, assembly_vars>>

----------------------------------------------------------------------------
(* Bounds of the model *)

\* the provider answers ToolCall at most MaxRounds times during one Agent::call
MaxRounds == 3

\* a Crew has at most MaxTasks tasks
MaxTasks == 3

----------------------------------------------------------------------------
(* Option and text helpers *)

None == <<>>
Some(x) == <<x>>
IsSome(o) == Len(o) = 1
Unwrap(o) == o[1]

\* s occurs in t as a contiguous run of tokens
Contains(t, s) ==
    \E i \in 0..Len(t) : i + Len(s) <= Len(t) /\ SubSeq(t, i + 1, i + Len(s)) = s

\* Display of a usize below ten, as format!("{}", n) prints it
fmt_usize(n) == <<"0", "1", "2", "3", "4", "5", "6", "7", "8", "9">>[n + 1]

RECURSIVE join(_, _)
\* Vec<String>::join(sep)
join(v, sep) ==
    IF Len(v) = 0 THEN <<>>
    ELSE IF Len(v) = 1 THEN v[1]
    ELSE v[1] \o sep \o join(Tail(v), sep)

----------------------------------------------------------------------------
(* Protocol model *)

\* ChatMessage::new(role, content, tool_calls, tool_call_id)
ChatMessage(role, content, calls, call_id) ==
    [role |-> role, content |-> content, tool_calls |-> calls, tool_call_id |-> call_id]

ToolCallRequest(id, name, arguments) ==
    [id |-> id, function |-> [name |-> name, arguments |-> arguments]]

\* Display of ProviderError (thiserror #[error("...")])
ProviderErrorKinds == {"RequestError", "ApiError", "ParseError", "ConfigError"}

to_string(e) ==
    CASE e = "RequestError" -> <<"API request failed: ", "reqwest">>
      [] e = "ApiError"     -> <<"API response error: ", "500", ": ", "body">>
      [] e = "ParseError"   -> <<"Failed to parse API response: ", "No choices found in OpenAI response">>
      [] e = "ConfigError"  -> <<"Configuration error: ", "Invalid provider configured for OpenAIProvider">>

----------------------------------------------------------------------------
(* Inputs: what the provider, the tools and the validator may answer *)

Contents == {<<"42">>, <<"{\"answer\":42}">>}

TC1 == ToolCallRequest(<<"call_1">>, <<"get_current_time">>, <<"{}">>)
TC2 == ToolCallRequest(<<"call_2">>, <<"get_weather">>, <<"{\"city\":1}">>)

\* call lists the provider may return: empty, one call, two calls
Batches == {<<>>, <<TC1>>, <<TC2, TC1>>}

ToolResults == {[ok |-> TRUE, val |-> <<"12:00">>], [ok |-> FALSE, val |-> <<"tool not found">>]}

ValidationErrors == {<<"not a JSON object">>, <<"missing field">>}

Tasks == {[description |-> <<"what is 6*7">>, expected_output |-> eo] :
             eo \in {None, Some(<<"a number">>)}}

backstory == <<"You are a helper">>
goals == << <<"be brief">>, <<"be right">> >>
\* Task::get_format_prompt of the task (an opaque text)
format_prompt == <<"Respond with a JSON object">>

----------------------------------------------------------------------------
(* Agent::call *)

\* a retry budget of one attempt more
MAX_RETRIES_Plus == 3 + 1

MAX_RETRIES == 3

\* the vec! of three messages built at the top of every loop iteration
Seed(t) ==
    << ChatMessage("system", Some(backstory), None, None),
       ChatMessage("user", Some(join(goals, <<"\n">>)), None, None),
       ChatMessage("user",
           Some(<<"TASK: ">> \o t.description \o <<"\n\nEXPECTED OUTPUT: ">>
                \o (IF IsSome(t.expected_output) THEN Unwrap(t.expected_output) ELSE <<"None">>)
                \o <<"\n\nOUTPUT FORMAT:\n">> \o format_prompt),
           None, None) >>

\* the feedback message pushed after a validation failure
Corrective(validation_error) ==
    ChatMessage("user",
        Some(<<"Your previous response was invalid: ">> \o validation_error
             \o <<". Please provide a corrected response that follows the required format exactly.">>),
        None, None)

\* a final error that drops the cause
ErrLLM_NoCause(e) == <<"LLM execution failed after ">> \o <<fmt_usize(MAX_RETRIES)>> \o <<" attempts">>

ErrLLM(e) == <<"LLM execution failed after ">> \o <<fmt_usize(MAX_RETRIES)>> \o <<" attempts: ">> \o e

ErrValidation(validation_error, raw) ==
    <<"Output validation failed after ">> \o <<fmt_usize(MAX_RETRIES)>> \o <<" attempts. Last error: ">>
    \o validation_error \o <<". Raw output: ">> \o raw

ErrFallThrough == <<"Maximum retry attempts exceeded">>

Ok(v) == [ok |-> TRUE, val |-> v]
Err(v) == [ok |-> FALSE, val |-> v]

\* the agent loop is modelled with the provider as a black box: no call of the
\* provider model is in progress
ProviderIdle ==
    /\ config_provider = "OpenAI"
    /\ op = "none"
    /\ req_tools = <<>>
    /\ ppc = "idle"
    /\ ret = <<>>
    /\ tool_call_aggregator = <<>>
    /\ emitted = <<>>
    /\ http_requests = 0
    /\ http_response = <<>>
    /\ received = <<>>

StreamIds == {"s1", "s2"}
CallIds == {"c1", "c2"}

\* no stream has been returned and no invocation has begun
ConcurrentIdle ==
    /\ streams = [s \in StreamIds |->
                     [spc |-> "none", tool_call_aggregator |-> <<>>,
                      emitted |-> <<>>, received |-> <<>>]]
    /\ invocations = [c \in CallIds |->
                   [task |-> <<>>, pc |-> "none", attempt |-> 0, messages |-> <<>>,
                    request |-> <<>>, tool_calls |-> <<>>, next_call |-> 1,
                    raw_result |-> <<>>, result |-> <<>>, rounds |-> 0, pushed |-> <<>>]]

\* get_provider has not been called and no Crew runs
AssemblyIdle ==
    /\ factory = [pc |-> "none", config |-> <<>>, ret |-> <<>>, panic |-> <<>>,
                  constructed |-> <<>>]
    /\ crew = [pc |-> "none", agents |-> 0, tasks |-> <<>>, workflow |-> "Sequential",
               next |-> 1, current_task |-> <<>>, current_task_output |-> <<>>,
               results |-> <<>>, ret |-> <<>>, called |-> <<>>]

Init ==
    /\ ProviderIdle
    /\ ConcurrentIdle
    /\ AssemblyIdle
    /\ task \in Tasks
    /\ pc = "loop"
    /\ attempt = 0
    /\ messages = <<>>
    /\ request = <<>>
    /\ tool_calls = <<>>
    /\ next_call = 1
    /\ raw_result = None
    /\ result = None
    /\ nSeeds = 0
    /\ nRequests = 0
    /\ reqInAttempt = 0
    /\ rounds = 0
    /\ nValidations = 0
    /\ validated = None
    /\ executed = <<>>
    /\ lastEnd = [kind |-> "none", err |-> <<>>, attempt |-> 0]

\* a loop head that builds the transcript once and carries it into the retries
StartAttempt_KeepTranscript ==
    /\ pc = "loop"
    /\ IF attempt < MAX_RETRIES
       THEN /\ attempt' = attempt + 1
            /\ messages' = (IF attempt = 0 THEN Seed(task) ELSE messages)
            /\ nSeeds' = nSeeds + 1
            /\ pc' = "await"
            /\ result' = result
       ELSE /\ result' = Some(Err(ErrFallThrough))
            /\ pc' = "done"
            /\ UNCHANGED <<attempt, messages, nSeeds>>
    /\ reqInAttempt' = 0
    /\ raw_result' = None
    /\ tool_calls' = <<>>
    /\ next_call' = 1
    /\ executed' = <<>>
    /\ validated' = None
    /\ UNCHANGED <<task, request, nRequests, rounds, nValidations, lastEnd>>
    /\ UNCHANGED <<provider_vars, concurrent_vars, assembly_vars>>

\* a loop head that attaches a feedback turn after a provider failure
StartAttempt_FeedbackOnFailure ==
    /\ pc = "loop"
    /\ IF attempt < MAX_RETRIES
       THEN /\ attempt' = attempt + 1
            /\ messages' = Seed(task) \o (IF lastEnd.kind = "provider"
                                          THEN <<Corrective(lastEnd.err)>> ELSE <<>>)
            /\ nSeeds' = nSeeds + 1
            /\ pc' = "await"
            /\ result' = result
       ELSE /\ result' = Some(Err(ErrFallThrough))
            /\ pc' = "done"
            /\ UNCHANGED <<attempt, messages, nSeeds>>
    /\ reqInAttempt' = 0
    /\ raw_result' = None
    /\ tool_calls' = <<>>
    /\ next_call' = 1
    /\ executed' = <<>>
    /\ validated' = None
    /\ UNCHANGED <<task, request, nRequests, rounds, nValidations, lastEnd>>
    /\ UNCHANGED <<provider_vars, concurrent_vars, assembly_vars>>

\* head of `for attempt in 1..=MAX_RETRIES`: the next iteration builds a new
\* `messages` (the vector of the previous iteration is dropped), or the loop
\* is over and the function falls through to its last line
StartAttempt ==
    /\ pc = "loop"
    /\ IF attempt < MAX_RETRIES
       THEN /\ attempt' = attempt + 1
            /\ messages' = Seed(task)
            /\ nSeeds' = nSeeds + 1
            /\ pc' = "await"
            /\ result' = result
       ELSE /\ result' = Some(Err(ErrFallThrough))
            /\ pc' = "done"
            /\ UNCHANGED <<attempt, messages, nSeeds>>
    /\ reqInAttempt' = 0
    /\ raw_result' = None
    /\ tool_calls' = <<>>
    /\ next_call' = 1
    /\ executed' = <<>>
    /\ validated' = None
    /\ UNCHANGED <<task, request, nRequests, rounds, nValidations, lastEnd>>
    /\ UNCHANGED <<provider_vars, concurrent_vars, assembly_vars>>

\* a request that leaves out the first message once the transcript has rounds
SendRequest_Truncated ==
    /\ pc = "await"
    /\ request' = (IF reqInAttempt >= 1 THEN Tail(messages) ELSE messages)
    /\ nRequests' = nRequests + 1
    /\ reqInAttempt' = reqInAttempt + 1
    /\ pc' = "inflight"
    /\ UNCHANGED <<task, attempt, messages, tool_calls, next_call, raw_result, result,
                   nSeeds, rounds, nValidations, validated, executed, lastEnd>>
    /\ UNCHANGED <<provider_vars, concurrent_vars, assembly_vars>>

\* execute_with_llm, loop head: CompletionRequest::new(messages.clone(), ...)
\* handed to provider.completion
SendRequest ==
    /\ pc = "await"
    /\ request' = messages
    /\ nRequests' = nRequests + 1
    /\ reqInAttempt' = reqInAttempt + 1
    /\ pc' = "inflight"
    /\ UNCHANGED <<task, attempt, messages, tool_calls, next_call, raw_result, result,
                   nSeeds, rounds, nValidations, validated, executed, lastEnd>>
    /\ UNCHANGED <<provider_vars, concurrent_vars, assembly_vars>>

\* Ok(response) with CompletionKind::Message { content }: return Ok(content)
RecvMessage(content) ==
    /\ pc = "inflight"
    /\ raw_result' = Some(content)
    /\ request' = <<>>
    /\ pc' = "validate"
    /\ UNCHANGED <<task, attempt, messages, tool_calls, next_call, result,
                   nSeeds, nRequests, reqInAttempt, rounds, nValidations, validated,
                   executed, lastEnd>>
    /\ UNCHANGED <<provider_vars, concurrent_vars, assembly_vars>>

\* a ToolCall result that uses up an attempt
RecvToolCall_CountsAttempt(calls) ==
    /\ pc = "inflight"
    /\ rounds < MaxRounds
    /\ attempt < MAX_RETRIES
    /\ attempt' = attempt + 1
    /\ messages' = Append(messages, ChatMessage("assistant", None, Some(calls), None))
    /\ tool_calls' = calls
    /\ next_call' = 1
    /\ executed' = <<>>
    /\ rounds' = rounds + 1
    /\ request' = <<>>
    /\ pc' = IF Len(calls) = 0 THEN "await" ELSE "tools"
    /\ UNCHANGED <<task, raw_result, result, nSeeds, nRequests,
                   reqInAttempt, nValidations, validated, lastEnd>>
    /\ UNCHANGED <<provider_vars, concurrent_vars, assembly_vars>>

\* a ToolCall result with an empty call list ends the attempt as a failure
RecvToolCall_FailOnEmpty(calls) ==
    /\ pc = "inflight"
    /\ rounds < MaxRounds
    /\ IF Len(calls) = 0
       THEN /\ lastEnd' = [kind |-> "provider", err |-> <<"no tool calls">>, attempt |-> attempt]
            /\ result' = (IF attempt = MAX_RETRIES
                          THEN Some(Err(<<"LLM execution failed">>)) ELSE result)
            /\ pc' = (IF attempt = MAX_RETRIES THEN "done" ELSE "loop")
            /\ UNCHANGED <<messages, tool_calls, next_call, executed>>
       ELSE /\ messages' = Append(messages, ChatMessage("assistant", None, Some(calls), None))
            /\ tool_calls' = calls
            /\ next_call' = 1
            /\ executed' = <<>>
            /\ pc' = "tools"
            /\ UNCHANGED <<lastEnd, result>>
    /\ rounds' = rounds + 1
    /\ request' = <<>>
    /\ UNCHANGED <<task, attempt, raw_result, nSeeds, nRequests,
                   reqInAttempt, nValidations, validated>>
    /\ UNCHANGED <<provider_vars, concurrent_vars, assembly_vars>>

\* Ok(response) with CompletionKind::ToolCall { tool_calls }: push the
\* Assistant turn and enter `for call in tool_calls`
RecvToolCall(calls) ==
    /\ pc = "inflight"
    /\ rounds < MaxRounds
    /\ messages' = Append(messages, ChatMessage("assistant", None, Some(calls), None))
    /\ tool_calls' = calls
    /\ next_call' = 1
    /\ executed' = <<>>
    /\ rounds' = rounds + 1
    /\ request' = <<>>
    /\ pc' = IF Len(calls) = 0 THEN "await" ELSE "tools"
    /\ UNCHANGED <<task, attempt, raw_result, result, nSeeds, nRequests,
                   reqInAttempt, nValidations, validated, lastEnd>>
    /\ UNCHANGED <<provider_vars, concurrent_vars, assembly_vars>>

\* the text of the Tool turn for the outcome r of execute_tool on call
ToolResultContent(call, r) ==
    IF r.ok THEN r.val
    ELSE <<"Error executing tool ">> \o call.function.name \o <<": ">> \o r.val

\* a Tool turn that echoes the function name instead of the call id
ToolTurn_EchoName(call, r) ==
    ChatMessage("tool", Some(ToolResultContent(call, r)), None, Some(call.function.name))

\* a Tool turn that carries the call it answers in tool_calls
ToolTurn_WithCalls(call, r) ==
    ChatMessage("tool", Some(ToolResultContent(call, r)), Some(<<call>>), Some(call.id))

\* the Tool turn pushed for call
ToolTurn(call, r) ==
    ChatMessage("tool", Some(ToolResultContent(call, r)), None, Some(call.id))

\* an iteration that takes the calls from the end of the list
ExecuteTool_Reversed(r) ==
    /\ pc = "tools"
    /\ LET call == tool_calls[Len(tool_calls) + 1 - next_call] IN
         /\ executed' = Append(executed, [call |-> call, outcome |-> r])
         /\ messages' = Append(messages, ToolTurn(call, r))
    /\ next_call' = next_call + 1
    /\ pc' = IF next_call = Len(tool_calls) THEN "await" ELSE "tools"
    /\ UNCHANGED <<task, attempt, request, tool_calls, raw_result, result, nSeeds,
                   nRequests, reqInAttempt, rounds, nValidations, validated, lastEnd>>
    /\ UNCHANGED <<provider_vars, concurrent_vars, assembly_vars>>

\* an iteration that leaves the batch when execute_tool fails
ExecuteTool_AbortOnError(r) ==
    /\ pc = "tools"
    /\ LET call == tool_calls[next_call] IN
         /\ executed' = Append(executed, [call |-> call, outcome |-> r])
         /\ messages' = Append(messages, ToolTurn(call, r))
    /\ next_call' = next_call + 1
    /\ pc' = IF next_call = Len(tool_calls) \/ ~r.ok THEN "await" ELSE "tools"
    /\ UNCHANGED <<task, attempt, request, tool_calls, raw_result, result, nSeeds,
                   nRequests, reqInAttempt, rounds, nValidations, validated, lastEnd>>
    /\ UNCHANGED <<provider_vars, concurrent_vars, assembly_vars>>

\* one iteration of `for call in tool_calls`: execute_tool, then push the Tool turn
ExecuteTool(r) ==
    /\ pc = "tools"
    /\ LET call == tool_calls[next_call] IN
         /\ executed' = Append(executed, [call |-> call, outcome |-> r])
         /\ messages' = Append(messages, ToolTurn(call, r))
    /\ next_call' = next_call + 1
    /\ pc' = IF next_call = Len(tool_calls) THEN "await" ELSE "tools"
    /\ UNCHANGED <<task, attempt, request, tool_calls, raw_result, result, nSeeds,
                   nRequests, reqInAttempt, rounds, nValidations, validated, lastEnd>>
    /\ UNCHANGED <<provider_vars, concurrent_vars, assembly_vars>>

\* an error handler in which a provider failure does not use up an attempt
RecvError_NotCounted(e) ==
    /\ pc = "inflight"
    /\ lastEnd' = [kind |-> "provider", err |-> to_string(e), attempt |-> attempt]
    /\ attempt' = attempt - 1
    /\ result' = result
    /\ pc' = "loop"
    /\ request' = <<>>
    /\ UNCHANGED <<task, messages, tool_calls, next_call, raw_result,
                   nSeeds, nRequests, reqInAttempt, rounds, nValidations, validated,
                   executed>>
    /\ UNCHANGED <<provider_vars, concurrent_vars, assembly_vars>>

\* an error handler that always goes on to the loop head
RecvError_AlwaysContinue(e) ==
    /\ pc = "inflight"
    /\ lastEnd' = [kind |-> "provider", err |-> to_string(e), attempt |-> attempt]
    /\ result' = result
    /\ pc' = "loop"
    /\ request' = <<>>
    /\ UNCHANGED <<task, attempt, messages, tool_calls, next_call, raw_result,
                   nSeeds, nRequests, reqInAttempt, rounds, nValidations, validated,
                   executed>>
    /\ UNCHANGED <<provider_vars, concurrent_vars, assembly_vars>>

\* an error handler that returns at once on a ConfigError
RecvError_FailFastOnConfig(e) ==
    /\ pc = "inflight"
    /\ lastEnd' = [kind |-> "provider", err |-> to_string(e), attempt |-> attempt]
    /\ IF attempt = MAX_RETRIES \/ e = "ConfigError"
       THEN /\ result' = Some(Err(ErrLLM(to_string(e))))
            /\ pc' = "done"
       ELSE /\ result' = result
            /\ pc' = "loop"
    /\ request' = <<>>
    /\ UNCHANGED <<task, attempt, messages, tool_calls, next_call, raw_result,
                   nSeeds, nRequests, reqInAttempt, rounds, nValidations, validated,
                   executed>>
    /\ UNCHANGED <<provider_vars, concurrent_vars, assembly_vars>>

\* the agent variables after execute_with_llm returned Err(text): Agent::call
\* returns on the last attempt or continues
execute_with_llm_failed(text) ==
    /\ pc = "inflight"
    /\ lastEnd' = [kind |-> "provider", err |-> text, attempt |-> attempt]
    /\ IF attempt = MAX_RETRIES
       THEN /\ result' = Some(Err(ErrLLM(text)))
            /\ pc' = "done"
       ELSE /\ result' = result
            /\ pc' = "loop"
    /\ request' = <<>>
    /\ UNCHANGED <<task, attempt, messages, tool_calls, next_call, raw_result,
                   nSeeds, nRequests, reqInAttempt, rounds, nValidations, validated,
                   executed>>

\* Err(e) from provider.completion: execute_with_llm returns Err(e.to_string()),
\* and Agent::call returns on the last attempt or continues
RecvError(e) ==
    /\ execute_with_llm_failed(to_string(e))
    /\ UNCHANGED <<provider_vars, concurrent_vars, assembly_vars>>

\* an accepted output after which the loop goes on
ValidateOk_Continue ==
    /\ pc = "validate"
    /\ nValidations' = nValidations + 1
    /\ validated' = Some([text |-> Unwrap(raw_result), attempt |-> attempt, verdict |-> "ok"])
    /\ lastEnd' = [kind |-> "ok", err |-> <<>>, attempt |-> attempt]
    /\ result' = IF attempt = MAX_RETRIES THEN Some(Ok(Unwrap(raw_result))) ELSE result
    /\ pc' = IF attempt = MAX_RETRIES THEN "done" ELSE "loop"
    /\ UNCHANGED <<task, attempt, messages, request, tool_calls, next_call, raw_result,
                   nSeeds, nRequests, reqInAttempt, rounds, executed>>
    /\ UNCHANGED <<provider_vars, concurrent_vars, assembly_vars>>

\* task.validate_output(&raw_result) returned Ok(())
ValidateOk ==
    /\ pc = "validate"
    /\ nValidations' = nValidations + 1
    /\ validated' = Some([text |-> Unwrap(raw_result), attempt |-> attempt, verdict |-> "ok"])
    /\ lastEnd' = [kind |-> "ok", err |-> <<>>, attempt |-> attempt]
    /\ result' = Some(Ok(Unwrap(raw_result)))
    /\ pc' = "done"
    /\ UNCHANGED <<task, attempt, messages, request, tool_calls, next_call, raw_result,
                   nSeeds, nRequests, reqInAttempt, rounds, executed>>
    /\ UNCHANGED <<provider_vars, concurrent_vars, assembly_vars>>

\* a validation failure that is accepted silently
ValidateFail_Accept(validation_error) ==
    /\ pc = "validate"
    /\ nValidations' = nValidations + 1
    /\ validated' = Some([text |-> Unwrap(raw_result), attempt |-> attempt, verdict |-> "err"])
    /\ lastEnd' = [kind |-> "validation", err |-> validation_error, attempt |-> attempt]
    /\ result' = Some(Ok(Unwrap(raw_result)))
    /\ pc' = "done"
    /\ UNCHANGED <<task, attempt, messages, request, tool_calls, next_call, raw_result,
                   nSeeds, nRequests, reqInAttempt, rounds, executed>>
    /\ UNCHANGED <<provider_vars, concurrent_vars, assembly_vars>>

\* task.validate_output(&raw_result) returned Err(validation_error)
ValidateFail(validation_error) ==
    /\ pc = "validate"
    /\ nValidations' = nValidations + 1
    /\ validated' = Some([text |-> Unwrap(raw_result), attempt |-> attempt, verdict |-> "err"])
    /\ lastEnd' = [kind |-> "validation", err |-> validation_error, attempt |-> attempt]
    /\ IF attempt = MAX_RETRIES
       THEN /\ result' = Some(Err(ErrValidation(validation_error, Unwrap(raw_result))))
            /\ pc' = "done"
            /\ messages' = messages
       ELSE /\ result' = result
            /\ messages' = Append(messages, Corrective(validation_error))
            /\ pc' = "loop"
    /\ UNCHANGED <<task, attempt, request, tool_calls, next_call, raw_result, nSeeds,
                   nRequests, reqInAttempt, rounds, executed>>
    /\ UNCHANGED <<provider_vars, concurrent_vars, assembly_vars>>

Next ==
    \/ StartAttempt
    \/ SendRequest
    \/ \E content \in Contents : RecvMessage(content)
    \/ \E calls \in Batches : RecvToolCall(calls)
    \/ \E r \in ToolResults : ExecuteTool(r)
    \/ \E e \in ProviderErrorKinds : RecvError(e)
    \/ ValidateOk
    \/ \E validation_error \in ValidationErrors : ValidateFail(validation_error)

Spec == Init /\ [][Next]_vars

\* Agent::call under the hypothesis that every awaited request, tool execution
\* and validation returns: the function keeps taking its next step
\* (the texts of the errors play no part in it: one provider error and one
\* validation error stand for all)
NextReturns ==
    \/ StartAttempt
    \/ SendRequest
    \/ \E content \in Contents : RecvMessage(content)
    \/ \E calls \in Batches : RecvToolCall(calls)
    \/ \E r \in ToolResults : ExecuteTool(r)
    \/ RecvError("RequestError")
    \/ ValidateOk
    \/ ValidateFail(<<"not a JSON object">>)

SpecReturns == Init /\ [][NextReturns]_vars /\ WF_vars(NextReturns)

\* ---- two invocations of Agent::call on one Agent ----

\* an invocation receives at most MaxCallRounds ToolCall results
MaxCallRounds == 1

\* the task each invocation is called with
CallTasks ==
    [c \in CallIds |->
        IF c = "c1"
        THEN [description |-> <<"what is 6*7">>, expected_output |-> None]
        ELSE [description |-> <<"what time is it">>, expected_output |-> Some(<<"a time">>)]]

\* what the provider, the tools and the validator answer an invocation
CallContents == {<<"42">>}
CallBatches == {<<TC2, TC1>>}
CallErrors == {"ApiError"}
CallValidationErrors == {<<"not a JSON object">>}

\* an Agent whose invocations all push to one transcript
transcript_of_Shared(c) == "c1"

\* the invocation whose record holds the `messages` that invocation c reads
\* and pushes to: `let mut messages` is a local of the call
transcript_of(c) == c

\* messages.push(msg) by invocation c
push(c, msg) ==
    [invocations EXCEPT ![transcript_of(c)].messages = Append(@, msg),
                        ![c].pushed = Append(@, msg)]

\* agent.call(task) begins
CallOf(c) ==
    /\ invocations[c].pc = "none"
    /\ invocations' = [invocations EXCEPT ![c].pc = "loop", ![c].task = Some(CallTasks[c])]
    /\ UNCHANGED <<agent_vars, provider_vars, streams, assembly_vars>>

\* head of `for attempt in 1..=MAX_RETRIES` of invocation c
StartAttemptOf(c) ==
    /\ invocations[c].pc = "loop"
    /\ invocations' =
         IF invocations[c].attempt < MAX_RETRIES
         THEN [invocations EXCEPT ![c].attempt = @ + 1,
                                  ![transcript_of(c)].messages = Seed(Unwrap(invocations[c].task)),
                                  ![c].pushed = Seed(Unwrap(invocations[c].task)),
                                  ![c].raw_result = None,
                                  ![c].tool_calls = <<>>,
                                  ![c].next_call = 1,
                                  ![c].pc = "await"]
         ELSE [invocations EXCEPT ![c].result = Some(Err(ErrFallThrough)),
                                  ![c].pc = "done"]
    /\ UNCHANGED <<agent_vars, provider_vars, streams, assembly_vars>>

\* execute_with_llm of invocation c sends messages.clone()
SendRequestOf(c) ==
    /\ invocations[c].pc = "await"
    /\ invocations' = [invocations EXCEPT
                          ![c].request = invocations[transcript_of(c)].messages,
                          ![c].pc = "inflight"]
    /\ UNCHANGED <<agent_vars, provider_vars, streams, assembly_vars>>

\* invocation c gets CompletionKind::Message
RecvMessageOf(c, content) ==
    /\ invocations[c].pc = "inflight"
    /\ invocations' = [invocations EXCEPT ![c].raw_result = Some(content),
                                          ![c].request = <<>>,
                                          ![c].pc = "validate"]
    /\ UNCHANGED <<agent_vars, provider_vars, streams, assembly_vars>>

\* invocation c gets CompletionKind::ToolCall and pushes the Assistant turn
RecvToolCallOf(c, batch) ==
    /\ invocations[c].pc = "inflight"
    /\ invocations[c].rounds < MaxCallRounds
    /\ invocations' = [push(c, ChatMessage("assistant", None, Some(batch), None)) EXCEPT
                          ![c].tool_calls = batch,
                          ![c].next_call = 1,
                          ![c].rounds = @ + 1,
                          ![c].request = <<>>,
                          ![c].pc = "tools"]
    /\ UNCHANGED <<agent_vars, provider_vars, streams, assembly_vars>>

\* one iteration of `for call in tool_calls` of invocation c
ExecuteToolOf(c, r) ==
    /\ invocations[c].pc = "tools"
    /\ invocations' = [push(c, ToolTurn(invocations[c].tool_calls[invocations[c].next_call], r))
                        EXCEPT
                          ![c].next_call = @ + 1,
                          ![c].pc = IF invocations[c].next_call = Len(invocations[c].tool_calls)
                                    THEN "await" ELSE "tools"]
    /\ UNCHANGED <<agent_vars, provider_vars, streams, assembly_vars>>

\* invocation c gets Err(e) from provider.completion
RecvErrorOf(c, e) ==
    /\ invocations[c].pc = "inflight"
    /\ invocations' =
         IF invocations[c].attempt = MAX_RETRIES
         THEN [invocations EXCEPT ![c].result = Some(Err(ErrLLM(to_string(e)))),
                                  ![c].request = <<>>,
                                  ![c].pc = "done"]
         ELSE [invocations EXCEPT ![c].request = <<>>, ![c].pc = "loop"]
    /\ UNCHANGED <<agent_vars, provider_vars, streams, assembly_vars>>

\* validate_output of invocation c returned Ok(())
ValidateOkOf(c) ==
    /\ invocations[c].pc = "validate"
    /\ invocations' = [invocations EXCEPT ![c].result = Some(Ok(Unwrap(invocations[c].raw_result))),
                                          ![c].pc = "done"]
    /\ UNCHANGED <<agent_vars, provider_vars, streams, assembly_vars>>

\* validate_output of invocation c returned Err(validation_error)
ValidateFailOf(c, validation_error) ==
    /\ invocations[c].pc = "validate"
    /\ invocations' =
         IF invocations[c].attempt = MAX_RETRIES
         THEN [invocations EXCEPT
                  ![c].result = Some(Err(ErrValidation(validation_error,
                                                       Unwrap(invocations[c].raw_result)))),
                  ![c].pc = "done"]
         ELSE [push(c, Corrective(validation_error)) EXCEPT ![c].pc = "loop"]
    /\ UNCHANGED <<agent_vars, provider_vars, streams, assembly_vars>>

NextCalls ==
    \/ \E c \in CallIds : CallOf(c)
    \/ \E c \in CallIds : StartAttemptOf(c)
    \/ \E c \in CallIds : SendRequestOf(c)
    \/ \E c \in CallIds, content \in CallContents : RecvMessageOf(c, content)
    \/ \E c \in CallIds, batch \in CallBatches : RecvToolCallOf(c, batch)
    \/ \E c \in CallIds, r \in ToolResults : ExecuteToolOf(c, r)
    \/ \E c \in CallIds, e \in CallErrors : RecvErrorOf(c, e)
    \/ \E c \in CallIds : ValidateOkOf(c)
    \/ \E c \in CallIds, validation_error \in CallValidationErrors :
           ValidateFailOf(c, validation_error)

SpecCalls == Init /\ [][NextCalls]_vars

----------------------------------------------------------------------------
(* OpenAIProvider: completion, completion_stream and the stream reassembly *)

\* the byte stream of one streaming response delivers at most MaxChunks
\* transport chunks
MaxChunks == 2

\* Display of a u16 (the HTTP status), digit by digit
RECURSIVE fmt_u16(_)
fmt_u16(n) == IF n < 10 THEN <<fmt_usize(n)>> ELSE fmt_u16(n \div 10) \o <<fmt_usize(n % 10)>>

\* ProviderError values and their Display (thiserror #[error("...")])
ApiError(status, message) == [kind |-> "ApiError", status |-> status, message |-> message]
RequestError(cause) == [kind |-> "RequestError", status |-> 0, message |-> cause]
ParseError(cause) == [kind |-> "ParseError", status |-> 0, message |-> cause]
ConfigError(message) == [kind |-> "ConfigError", status |-> 0, message |-> message]
Unsupported(message) == [kind |-> "Unsupported", status |-> 0, message |-> message]

Display(e) ==
    CASE e.kind = "ApiError"     -> <<"API response error: ">> \o fmt_u16(e.status) \o <<": ">> \o e.message
      [] e.kind = "RequestError" -> <<"API request failed: ">> \o e.message
      [] e.kind = "ParseError"   -> <<"Failed to parse API response: ">> \o e.message
      [] e.kind = "ConfigError"  -> <<"Configuration error: ">> \o e.message
      [] e.kind = "Unsupported"  -> <<"Unsupported operation: ">> \o e.message

\* what execute_with_llm returns when provider.completion returned Err(e)
execute_with_llm_Err(e) == Err(Display(e))

\* ---- the vendor's wire values ----

\* OpenAIUsage, and the TokenUsage it is copied into field by field
Usage1 == [prompt_tokens |-> 7, completion_tokens |-> 2, total_tokens |-> 9]
TokenUsage(u) == [prompt_tokens |-> u.prompt_tokens,
                  completion_tokens |-> u.completion_tokens,
                  total_tokens |-> u.total_tokens]

\* OpenAIToolCall of a completed response
OpenAIToolCall(id, name, arguments) ==
    [id |-> id, type |-> "function", function |-> [name |-> name, arguments |-> arguments]]

\* OpenAIChatResponse: choices of OpenAIChoice { message, finish_reason }, usage
OpenAIChoice(content, calls, finish_reason) ==
    [message |-> [content |-> content, tool_calls |-> calls], finish_reason |-> finish_reason]

VC1 == OpenAIToolCall(<<"call_1">>, <<"get_current_time">>, <<"{}">>)
VC2 == OpenAIToolCall(<<"call_2">>, <<"get_weather">>, <<"{\"city\":1}">>)

\* response bodies of a 2xx answer to completion: "json" bodies decode into an
\* OpenAIChatResponse, a "malformed" body does not
ResponseBodies ==
    {[kind |-> "json", choices |-> <<c>>, usage |-> u] :
        c \in {OpenAIChoice(None, Some(<<VC1, VC2>>), Some("tool_calls")),
               OpenAIChoice(Some(<<"thinking">>), Some(<<VC1>>), Some("tool_calls")),
               OpenAIChoice(Some(<<"4">>), None, Some("stop")),
               OpenAIChoice(Some(<<"4">>), Some(<<>>), Some("stop")),
               OpenAIChoice(None, Some(<<>>), Some("tool_calls")),
               OpenAIChoice(None, None, Some("tool_calls")),
               OpenAIChoice(None, None, Some("stop")),
               OpenAIChoice(None, None, None)},
        u \in {None, Some(Usage1)}}
    \cup {[kind |-> "json", choices |-> <<>>, usage |-> None],
          [kind |-> "json",
           choices |-> <<OpenAIChoice(Some(<<"first">>), None, Some("stop")),
                         OpenAIChoice(None, Some(<<VC2>>), Some("tool_calls"))>>,
           usage |-> None],
          [kind |-> "malformed", choices |-> <<>>, usage |-> None]}

\* non-2xx answers: status and error body (None: the body could not be read)
ErrorStatuses == {401, 500}
ErrorBodies == {None, Some(<<"rate limited">>)}

\* request.tools of a call
RequestTools == {None, Some(<<>>), Some(<<"get_weather">>)}

\* OpenAIStreamToolCallDelta { index, id, function: { name, arguments } }
OpenAIStreamToolCallDelta(index, id, name, arguments) ==
    [index |-> index, id |-> id, function |-> Some([name |-> name, arguments |-> arguments])]

\* a `data: ` line: a JSON payload (OpenAIChatStreamResponse: choices of
\* OpenAIStreamChoice { delta { content, tool_calls }, finish_reason }, usage),
\* the [DONE] sentinel, or a payload that does not decode
StreamData(content, calls, finish_reason, usage) ==
    [kind |-> "json",
     choices |-> << [delta |-> [content |-> content, tool_calls |-> calls],
                     finish_reason |-> finish_reason] >>,
     usage |-> usage]

T0a == StreamData(None,
           Some(<<OpenAIStreamToolCallDelta(0, Some(<<"call_1">>), Some(<<"get_weather">>),
                                       Some(<<"{\"city\":">>))>>),
           None, None)
T0b == StreamData(None,
           Some(<<OpenAIStreamToolCallDelta(0, Some(<<"call_2">>), Some(<<"get_time">>),
                                       Some(<<"1}">>))>>),
           None, None)
T1x == StreamData(None,
           Some(<<OpenAIStreamToolCallDelta(1, Some(<<"call_9">>), Some(<<"get_time">>),
                                       Some(<<"{}">>))>>),
           Some("tool_calls"), None)
TX == StreamData(Some(<<"Hi">>), None, None, None)
TXF == StreamData(Some(<<" there">>), None, Some("stop"), Some(Usage1))
TE == StreamData(Some(<<>>), None, None, None)
FIN == StreamData(None, None, Some("stop"), Some(Usage1))
DONE == [kind |-> "done", choices |-> <<>>, usage |-> None]
BAD == [kind |-> "malformed", choices |-> <<>>, usage |-> None]

StreamLines == {T0a, T0b, T1x, TX, TXF, TE, FIN, DONE, BAD}

\* a transport chunk holds one data line or two
TransportChunks ==
    {<<a>> : a \in StreamLines} \cup {<<a, b>> : a \in StreamLines, b \in StreamLines}

\* a line that lists deltas for two indices, index 1 before index 0
T01 == StreamData(None,
           Some(<<OpenAIStreamToolCallDelta(1, Some(<<"call_9">>), Some(<<"get_time">>),
                                       Some(<<"{}">>)),
                  OpenAIStreamToolCallDelta(0, None, None, Some(<<"2}">>))>>),
           None, None)
\* a line whose delta has "content": "" next to its tool_calls
TEC == StreamData(Some(<<>>),
           Some(<<OpenAIStreamToolCallDelta(0, Some(<<"call_1">>), Some(<<"get_weather">>),
                                       Some(<<"{\"city\":">>))>>),
           None, None)

\* the two pieces of the data line l when the transport cuts it inside its
\* JSON payload: the head is `data: ` and the beginning of the payload, the
\* tail is the rest of the payload (it does not start with `data: `)
CutHead(l) == [l EXCEPT !.kind = "head"]
CutTail(l) == [l EXCEPT !.kind = "tail"]

\* transport chunks of a response whose lines arrive whole or cut, one or two
\* lines to a chunk
FramingChunks ==
    {<<T0a>>, <<T0b>>, <<T1x>>, <<T01>>, <<TEC>>, <<TX>>, <<DONE>>,
     <<T0a, T1x>>, <<TX, TX>>, <<T0a, DONE>>,
     <<CutHead(TX)>>, <<CutTail(TX)>>,
     <<T0a, CutHead(T0b)>>, <<CutTail(T0b), T1x>>}

\* ---- the provider-neutral stream values ----

\* ToolCallStreamDelta { index, id, function }
ToolCallStreamDelta(index, id, function) ==
    [index |-> index, id |-> id, function |-> function]

\* CompletionStreamChunk { delta, usage, finish_reason }
TextChunk(text, usage, finish_reason) ==
    [delta |-> [kind |-> "Text", text |-> text, deltas |-> <<>>],
     usage |-> usage, finish_reason |-> finish_reason]
ToolCallDeltaChunk(deltas) ==
    [delta |-> [kind |-> "ToolCallDelta", text |-> <<>>, deltas |-> deltas],
     usage |-> None, finish_reason |-> None]

\* ---- completion ----

\* a mapping that hands on the arguments as an empty JSON object
CompletionKind_NormalisedArguments(first_choice) ==
    IF IsSome(first_choice.message.tool_calls)
    THEN [kind |-> "ToolCall", content |-> <<>>,
          tool_calls |-> [i \in 1..Len(Unwrap(first_choice.message.tool_calls)) |->
                            LET tc == Unwrap(first_choice.message.tool_calls)[i]
                            IN ToolCallRequest(tc.id, tc.function.name, <<"{}">>)]]
    ELSE IF IsSome(first_choice.message.content)
    THEN [kind |-> "Message", content |-> Unwrap(first_choice.message.content), tool_calls |-> <<>>]
    ELSE IF first_choice.finish_reason = Some("tool_calls")
    THEN [kind |-> "ToolCall", content |-> <<>>, tool_calls |-> <<>>]
    ELSE [kind |-> "Message", content |-> <<>>, tool_calls |-> <<>>]

\* the mapping of the first choice to CompletionKind
CompletionKind(first_choice) ==
    IF IsSome(first_choice.message.tool_calls)
    THEN [kind |-> "ToolCall", content |-> <<>>,
          tool_calls |-> [i \in 1..Len(Unwrap(first_choice.message.tool_calls)) |->
                            LET tc == Unwrap(first_choice.message.tool_calls)[i]
                            IN ToolCallRequest(tc.id, tc.function.name, tc.function.arguments)]]
    ELSE IF IsSome(first_choice.message.content)
    THEN [kind |-> "Message", content |-> Unwrap(first_choice.message.content), tool_calls |-> <<>>]
    ELSE IF first_choice.finish_reason = Some("tool_calls")
    THEN [kind |-> "ToolCall", content |-> <<>>, tool_calls |-> <<>>]
    ELSE [kind |-> "Message", content |-> <<>>, tool_calls |-> <<>>]

\* a response without choices taken as an empty message
CompletionResponse_EmptyMessage(body) ==
    IF Len(body.choices) = 0
    THEN Ok([kind |-> [kind |-> "Message", content |-> <<>>, tool_calls |-> <<>>],
             usage |-> None, finish_reason |-> None])
    ELSE Ok([kind |-> CompletionKind(body.choices[1]),
             usage |-> (IF IsSome(body.usage) THEN Some(TokenUsage(Unwrap(body.usage))) ELSE None),
             finish_reason |-> body.choices[1].finish_reason])

\* CompletionResponse { kind, usage, finish_reason } of a decoded body, or the
\* error of a body without choices
CompletionResponse(body) ==
    IF Len(body.choices) = 0
    THEN Err(ParseError(<<"No choices found in OpenAI response">>))
    ELSE Ok([kind |-> CompletionKind(body.choices[1]),
             usage |-> (IF IsSome(body.usage) THEN Some(TokenUsage(Unwrap(body.usage))) ELSE None),
             finish_reason |-> body.choices[1].finish_reason])

\* ---- the closure of try_filter_map: one transport chunk ----

\* a text delta that leaves the map as it is
clear_Keep(current_tool_calls) == current_tool_calls

\* current_tool_calls.clear()
clear(current_tool_calls) == {}

\* entry(index).or_insert_with(|| ToolCallStreamDelta { index, id: None, function: None })
or_insert_with(current_tool_calls, index) ==
    IF \E e \in current_tool_calls : e.index = index
    THEN CHOOSE e \in current_tool_calls : e.index = index
    ELSE ToolCallStreamDelta(index, None, None)

\* if let Some(id) = tool_delta.id { entry.id = Some(id); }
set_id(entry, tool_delta) ==
    IF IsSome(tool_delta.id) THEN [entry EXCEPT !.id = tool_delta.id] ELSE entry

\* entry.function.get_or_insert_with(|| ToolCallFunctionStreamDelta { name: None, arguments: None })
get_or_insert_with(function) ==
    IF IsSome(function) THEN Unwrap(function) ELSE [name |-> None, arguments |-> None]

\* if let Some(name) = func_delta.name { func_entry.name = Some(name); }
set_name(func_entry, func_delta) ==
    IF IsSome(func_delta.name) THEN [func_entry EXCEPT !.name = func_delta.name] ELSE func_entry

\* func_entry.arguments = Some(current_args + &args_chunk), current_args being
\* func_entry.arguments.clone().unwrap_or_default()
append_arguments(func_entry, func_delta) ==
    IF IsSome(func_delta.arguments)
    THEN [func_entry EXCEPT !.arguments =
             Some((IF IsSome(func_entry.arguments) THEN Unwrap(func_entry.arguments) ELSE <<>>)
                  \o Unwrap(func_delta.arguments))]
    ELSE func_entry

\* if let Some(func_delta) = tool_delta.function { .. }
set_function(entry, tool_delta) ==
    IF IsSome(tool_delta.function)
    THEN [entry EXCEPT !.function =
             Some(append_arguments(set_name(get_or_insert_with(entry.function),
                                            Unwrap(tool_delta.function)),
                                   Unwrap(tool_delta.function)))]
    ELSE entry

\* the entry of the delta's index after the delta was applied to it
ApplyToolDelta(current_tool_calls, tool_delta) ==
    set_function(set_id(or_insert_with(current_tool_calls, tool_delta.index), tool_delta),
                 tool_delta)

\* a map that holds the entry just written and nothing else
insert_Only(current_tool_calls, entry) == {entry}

\* the map with the entry of entry.index replaced by entry
insert(current_tool_calls, entry) ==
    {e \in current_tool_calls : e.index # entry.index} \cup {entry}

\* generic_deltas.push(entry.clone())
push_entry(acc, entry) ==
    [map |-> insert(acc.map, entry), generic_deltas |-> Append(acc.generic_deltas, entry)]

RECURSIVE ApplyToolDeltas(_, _)
\* `for tool_delta in tool_deltas`: the map and generic_deltas after the loop
ApplyToolDeltas(tool_deltas, acc) ==
    IF Len(tool_deltas) = 0 THEN acc
    ELSE ApplyToolDeltas(Tail(tool_deltas),
                         push_entry(acc, ApplyToolDelta(acc.map, Head(tool_deltas))))

\* if let Some(usage) = openai_chunk.usage { final_usage = Some(usage); }
set_final_usage(openai_chunk, st) ==
    IF IsSome(openai_chunk.usage) THEN [st EXCEPT !.final_usage = openai_chunk.usage] ELSE st

\* if let Some(reason) = choice.finish_reason { final_reason = Some(reason); }
set_final_reason(choice, st) ==
    IF IsSome(choice.finish_reason) THEN [st EXCEPT !.final_reason = choice.finish_reason] ELSE st

\* the end of the tool-call branch: a ToolCallDelta chunk unless generic_deltas is empty
set_tool_chunk(st, acc) ==
    IF Len(acc.generic_deltas) # 0
    THEN [st EXCEPT !.result_chunk = Some(ToolCallDeltaChunk(acc.generic_deltas)),
                    !.current_tool_calls = acc.map]
    ELSE [st EXCEPT !.current_tool_calls = acc.map]

\* `if let Some(text_delta) = choice.delta.content { if !text_delta.is_empty() {..} }
\*  else if let Some(tool_deltas) = choice.delta.tool_calls {..}`
ApplyDelta(delta, st) ==
    IF IsSome(delta.content)
    THEN IF Len(Unwrap(delta.content)) # 0
         THEN [st EXCEPT !.result_chunk = Some(TextChunk(Unwrap(delta.content), None, None)),
                         !.current_tool_calls = clear(st.current_tool_calls)]
         ELSE st
    ELSE IF IsSome(delta.tool_calls)
    THEN set_tool_chunk(st, ApplyToolDeltas(Unwrap(delta.tool_calls),
                                            [map |-> st.current_tool_calls,
                                             generic_deltas |-> <<>>]))
    ELSE st

\* if let Some(choice) = openai_chunk.choices.into_iter().next() {..}
ApplyChoice(openai_chunk, st) ==
    IF Len(openai_chunk.choices) = 0 THEN st
    ELSE ApplyDelta(openai_chunk.choices[1].delta,
                    set_final_reason(openai_chunk.choices[1], st))

\* the Ok(openai_chunk) arm: one decoded payload applied to the locals of the
\* closure (result_chunk, final_usage, final_reason) and to the shared map
ApplyPayload(openai_chunk, st) ==
    ApplyChoice(openai_chunk, set_final_usage(openai_chunk, st))

RECURSIVE ProcessLines(_, _)
\* `for line in lines`: a line that does not start with `data: ` (the tail of
\* a cut line) and [DONE] are skipped, a payload that does not decode
\* (malformed, or the head of a cut line) returns the error at once
ProcessLines(lines, st) ==
    IF Len(lines) = 0 THEN st
    ELSE IF Head(lines).kind \in {"done", "tail"} THEN ProcessLines(Tail(lines), st)
    ELSE IF Head(lines).kind \in {"malformed", "head"} THEN [st EXCEPT !.error = TRUE]
    ELSE ProcessLines(Tail(lines), ApplyPayload(Head(lines), st))

\* what the closure returns after the loop, as the item the stream yields:
\* Some(Err(e)), Some(Ok(chunk)), or None for Ok(None) (nothing is yielded)
Item(st) ==
    IF st.error THEN Some(Err(ParseError(<<"serde_json">>)))
    ELSE IF ~IsSome(st.result_chunk) /\ (IsSome(st.final_reason) \/ IsSome(st.final_usage))
    THEN Some(Ok(TextChunk(<<>>,
                           IF IsSome(st.final_usage)
                           THEN Some(TokenUsage(Unwrap(st.final_usage))) ELSE None,
                           st.final_reason)))
    ELSE IF IsSome(st.result_chunk) THEN Some(Ok(Unwrap(st.result_chunk)))
    ELSE None

\* the locals of the closure after its loop over the lines of one transport chunk
Closure(chunk, current_tool_calls) ==
    ProcessLines(chunk, [result_chunk |-> None, final_usage |-> None, final_reason |-> None,
                         current_tool_calls |-> current_tool_calls, error |-> FALSE])

\* the stream state after the closure ran
Yield(st) ==
    /\ tool_call_aggregator' = Some(st.current_tool_calls)
    /\ emitted' = emitted \o Item(st)

\* ---- the calls ----

\* no Agent::call is in progress
NoAgentCall ==
    /\ task = CHOOSE t \in Tasks : TRUE
    /\ pc = "done"
    /\ attempt = 0
    /\ messages = <<>>
    /\ request = <<>>
    /\ tool_calls = <<>>
    /\ next_call = 1
    /\ raw_result = None
    /\ result = None
    /\ nSeeds = 0
    /\ nRequests = 0
    /\ reqInAttempt = 0
    /\ rounds = 0
    /\ nValidations = 0
    /\ validated = None
    /\ executed = <<>>
    /\ lastEnd = [kind |-> "none", err |-> <<>>, attempt |-> 0]

InitProvider ==
    /\ config_provider \in {"OpenAI", "Ollama"}
    /\ op = "none"
    /\ req_tools = None
    /\ ppc = "idle"
    /\ ret = None
    /\ tool_call_aggregator = None
    /\ emitted = <<>>
    /\ http_requests = 0
    /\ http_response = None
    /\ received = <<>>
    /\ ConcurrentIdle
    /\ AssemblyIdle
    \* no Agent::call is in progress
    /\ task = CHOOSE t \in Tasks : TRUE
    /\ pc = "done"
    /\ attempt = 0
    /\ messages = <<>>
    /\ request = <<>>
    /\ tool_calls = <<>>
    /\ next_call = 1
    /\ raw_result = None
    /\ result = None
    /\ nSeeds = 0
    /\ nRequests = 0
    /\ reqInAttempt = 0
    /\ rounds = 0
    /\ nValidations = 0
    /\ validated = None
    /\ executed = <<>>
    /\ lastEnd = [kind |-> "none", err |-> <<>>, attempt |-> 0]

\* completion, up to `.send().await`
CallCompletion(tools) ==
    /\ ppc = "idle"
    /\ op' = "completion"
    /\ req_tools' = tools
    /\ IF config_provider # "OpenAI"
       THEN /\ ret' = Some(Err(ConfigError(<<"Invalid provider configured for OpenAIProvider">>)))
            /\ ppc' = "returned"
            /\ UNCHANGED http_requests
       ELSE /\ http_requests' = http_requests + 1
            /\ ppc' = "sent"
            /\ UNCHANGED ret
    /\ UNCHANGED <<config_provider, tool_call_aggregator, emitted, http_response, received>>
    /\ UNCHANGED <<agent_vars, concurrent_vars, assembly_vars>>

\* an entry of completion_stream that lets an empty tool list through
CallCompletionStream_EmptyToolsPass(tools) ==
    /\ ppc = "idle"
    /\ op' = "completion_stream"
    /\ req_tools' = tools
    /\ IF IsSome(tools) /\ Len(Unwrap(tools)) # 0
       THEN /\ ret' = Some(Err(Unsupported(<<"Streaming tool calls are not currently supported by the OpenAI provider implementation.">>)))
            /\ ppc' = "returned"
            /\ UNCHANGED http_requests
       ELSE IF config_provider # "OpenAI"
       THEN /\ ret' = Some(Err(ConfigError(<<"Invalid provider configured for OpenAIProvider">>)))
            /\ ppc' = "returned"
            /\ UNCHANGED http_requests
       ELSE /\ http_requests' = http_requests + 1
            /\ ppc' = "sent"
            /\ UNCHANGED ret
    /\ UNCHANGED <<config_provider, tool_call_aggregator, emitted, http_response, received>>
    /\ UNCHANGED <<agent_vars, concurrent_vars, assembly_vars>>

\* completion_stream, up to `.send().await`
CallCompletionStream(tools) ==
    /\ ppc = "idle"
    /\ op' = "completion_stream"
    /\ req_tools' = tools
    /\ IF IsSome(tools)
       THEN /\ ret' = Some(Err(Unsupported(<<"Streaming tool calls are not currently supported by the OpenAI provider implementation.">>)))
            /\ ppc' = "returned"
            /\ UNCHANGED http_requests
       ELSE IF config_provider # "OpenAI"
       THEN /\ ret' = Some(Err(ConfigError(<<"Invalid provider configured for OpenAIProvider">>)))
            /\ ppc' = "returned"
            /\ UNCHANGED http_requests
       ELSE /\ http_requests' = http_requests + 1
            /\ ppc' = "sent"
            /\ UNCHANGED ret
    /\ UNCHANGED <<config_provider, tool_call_aggregator, emitted, http_response, received>>
    /\ UNCHANGED <<agent_vars, concurrent_vars, assembly_vars>>

\* `.send().await?` fails: no response
SendFails ==
    /\ ppc = "sent"
    /\ ret' = Some(Err(RequestError(<<"reqwest">>)))
    /\ ppc' = "returned"
    /\ UNCHANGED <<config_provider, op, req_tools, tool_call_aggregator, emitted,
                   http_requests, http_response, received>>
    /\ UNCHANGED <<agent_vars, concurrent_vars, assembly_vars>>

\* a provider that sends the request once more after the first error status
RecvErrorStatus_Retry(status, error_body) ==
    /\ ppc = "sent"
    /\ IF http_requests < 2
       THEN /\ http_requests' = http_requests + 1
            /\ UNCHANGED <<http_response, ret, ppc>>
       ELSE /\ http_response' = Some([status |-> status, body |-> error_body])
            /\ ret' = Some(Err(ApiError(status,
                           IF IsSome(error_body) THEN Unwrap(error_body)
                           ELSE <<"Failed to read error body">>)))
            /\ ppc' = "returned"
            /\ UNCHANGED http_requests
    /\ UNCHANGED <<config_provider, op, req_tools, tool_call_aggregator, emitted, received>>
    /\ UNCHANGED <<agent_vars, concurrent_vars, assembly_vars>>

\* a response whose status is not 2xx (either method)
RecvErrorStatus(status, error_body) ==
    /\ ppc = "sent"
    /\ http_response' = Some([status |-> status, body |-> error_body])
    /\ ret' = Some(Err(ApiError(status,
                   IF IsSome(error_body) THEN Unwrap(error_body)
                   ELSE <<"Failed to read error body">>)))
    /\ ppc' = "returned"
    /\ UNCHANGED <<config_provider, op, req_tools, tool_call_aggregator, emitted,
                   http_requests, received>>
    /\ UNCHANGED <<agent_vars, concurrent_vars, assembly_vars>>

\* completion: a 2xx response and its body
RecvCompletionBody(body) ==
    /\ ppc = "sent"
    /\ op = "completion"
    /\ http_response' = Some([status |-> 200, body |-> body])
    /\ ret' = Some(IF body.kind = "malformed" THEN Err(RequestError(<<"reqwest">>))
                   ELSE CompletionResponse(body))
    /\ ppc' = "returned"
    /\ UNCHANGED <<config_provider, op, req_tools, tool_call_aggregator, emitted,
                   http_requests, received>>
    /\ UNCHANGED <<agent_vars, concurrent_vars, assembly_vars>>

\* completion_stream: a 2xx response; the map is created and the stream returned
OpenStream ==
    /\ ppc = "sent"
    /\ op = "completion_stream"
    /\ http_response' = Some([status |-> 200, body |-> None])
    /\ tool_call_aggregator' = Some({})
    /\ ret' = Some(Ok("CompletionStream"))
    /\ ppc' = "streaming"
    /\ UNCHANGED <<config_provider, op, req_tools, emitted, http_requests, received>>
    /\ UNCHANGED <<agent_vars, concurrent_vars, assembly_vars>>

\* the consumer polls the stream and the byte stream delivers a chunk: the
\* closure runs on it.  An Err item does not end the stream of try_filter_map:
\* the next poll runs the closure on the next chunk, with the same map.
ProcessChunk(chunk) ==
    /\ ppc = "streaming"
    /\ Len(received) < MaxChunks
    /\ received' = Append(received, chunk)
    /\ Yield(Closure(chunk, Unwrap(tool_call_aggregator)))
    /\ UNCHANGED <<config_provider, op, req_tools, ppc, ret, http_requests, http_response>>
    /\ UNCHANGED <<agent_vars, concurrent_vars, assembly_vars>>

\* the byte stream ends: the stream yields None
StreamEnd ==
    /\ ppc = "streaming"
    /\ ppc' = "ended"
    /\ UNCHANGED <<config_provider, op, req_tools, ret, tool_call_aggregator, emitted,
                   http_requests, http_response, received>>
    /\ UNCHANGED <<agent_vars, concurrent_vars, assembly_vars>>

NextProvider ==
    \/ \E tools \in RequestTools : CallCompletion(tools)
    \/ \E tools \in RequestTools : CallCompletionStream(tools)
    \/ SendFails
    \/ \E status \in ErrorStatuses, error_body \in ErrorBodies : RecvErrorStatus(status, error_body)
    \/ \E body \in ResponseBodies : RecvCompletionBody(body)
    \/ OpenStream
    \/ \E chunk \in TransportChunks : ProcessChunk(chunk)
    \/ StreamEnd

SpecProvider == InitProvider /\ [][NextProvider]_vars

\* completion_stream on a response whose data lines may be cut by the transport
\* and may list several indices or carry "content": ""
NextFraming ==
    \/ \E tools \in RequestTools : CallCompletionStream(tools)
    \/ SendFails
    \/ \E status \in ErrorStatuses, error_body \in ErrorBodies : RecvErrorStatus(status, error_body)
    \/ OpenStream
    \/ \E chunk \in FramingChunks : ProcessChunk(chunk)
    \/ StreamEnd

SpecFraming == InitProvider /\ [][NextFraming]_vars

\* ---- two streams of one provider ----

\* transport chunks of the two responses
StreamsChunks == {<<T0a>>, <<T0b>>, <<T1x>>, <<TX>>, <<T0a, T1x>>}

\* a provider whose streams all lock one map
aggregator_of_Shared(s) == "s1"

\* the stream whose record holds the map that the closure of stream s locks:
\* every completion_stream call creates a map of its own and moves it into the
\* closure of the stream it returns
aggregator_of(s) == s

\* a completion_stream call got its 2xx response: the map is created and the
\* stream returned
OpenStreamOf(s) ==
    /\ streams[s].spc = "none"
    /\ streams' = [streams EXCEPT ![s].spc = "streaming",
                                  ![aggregator_of(s)].tool_call_aggregator = Some({})]
    /\ UNCHANGED <<agent_vars, provider_vars, invocations, assembly_vars>>

\* the streams after the closure of stream s ran on chunk
YieldOf(s, chunk, st) ==
    [streams EXCEPT ![s].received = Append(@, chunk),
                    ![s].emitted = @ \o Item(st),
                    ![aggregator_of(s)].tool_call_aggregator = Some(st.current_tool_calls)]

\* the consumer of stream s polls it and its byte stream delivers a chunk; the
\* closure holds the lock of its map from the first line to the last and has
\* no await point in between
ProcessChunkOf(s, chunk) ==
    /\ streams[s].spc = "streaming"
    /\ Len(streams[s].received) < MaxChunks
    /\ streams' = YieldOf(s, chunk,
                     Closure(chunk, Unwrap(streams[aggregator_of(s)].tool_call_aggregator)))
    /\ UNCHANGED <<agent_vars, provider_vars, invocations, assembly_vars>>

\* the byte stream of stream s ends
StreamEndOf(s) ==
    /\ streams[s].spc = "streaming"
    /\ streams' = [streams EXCEPT ![s].spc = "ended"]
    /\ UNCHANGED <<agent_vars, provider_vars, invocations, assembly_vars>>

NextStreams ==
    \/ \E s \in StreamIds : OpenStreamOf(s)
    \/ \E s \in StreamIds, chunk \in StreamsChunks : ProcessChunkOf(s, chunk)
    \/ \E s \in StreamIds : StreamEndOf(s)

SpecStreams == InitProvider /\ [][NextStreams]_vars

\* ---- Agent::call on an Agent whose provider is an OpenAIProvider ----

\* self.tools of the agent, sent with every request
AgentTools == Some(<<"get_weather">>)

\* what the vendor answers the agent's requests with a 2xx status
AgentBodies ==
    {[kind |-> "json", choices |-> <<c>>, usage |-> None] :
        c \in {OpenAIChoice(None, Some(<<VC2, VC1>>), Some("tool_calls")),
               OpenAIChoice(Some(<<"thinking">>), Some(<<VC1>>), Some("tool_calls")),
               OpenAIChoice(Some(<<"4">>), None, Some("stop")),
               OpenAIChoice(None, None, Some("tool_calls"))}}
    \cup {[kind |-> "json", choices |-> <<>>, usage |-> None]}

\* execute_with_llm calls self.provider.completion(request) with the request
\* it built
Completion ==
    /\ pc = "inflight"
    /\ CallCompletion(AgentTools)

\* the vendor answers 2xx with body (a body that maps to a ToolCall result
\* only while fewer than MaxRounds were received)
AnswerBody(body) ==
    /\ pc = "inflight"
    /\ (CompletionResponse(body).ok /\ CompletionResponse(body).val.kind.kind = "ToolCall")
          => rounds < MaxRounds
    /\ RecvCompletionBody(body)

\* completion returned Ok(response) with CompletionKind::Message
ReturnMessage ==
    /\ ppc = "returned"
    /\ Unwrap(ret).ok
    /\ Unwrap(ret).val.kind.kind = "Message"
    /\ RecvMessage(Unwrap(ret).val.kind.content)

\* completion returned Ok(response) with CompletionKind::ToolCall
ReturnToolCall ==
    /\ ppc = "returned"
    /\ Unwrap(ret).ok
    /\ Unwrap(ret).val.kind.kind = "ToolCall"
    /\ RecvToolCall(Unwrap(ret).val.kind.tool_calls)

\* completion returned Err(e): execute_with_llm returns Err(e.to_string())
ReturnErr ==
    /\ ppc = "returned"
    /\ ~Unwrap(ret).ok
    /\ execute_with_llm_failed(Display(Unwrap(ret).val))
    /\ UNCHANGED <<provider_vars, concurrent_vars, assembly_vars>>

\* the top of `loop` in execute_with_llm after a call returned: the next
\* completion call starts from nothing (a call keeps no state in the provider)
NextCompletion ==
    /\ pc = "await"
    /\ ppc = "returned"
    /\ op' = "none"
    /\ req_tools' = None
    /\ ppc' = "idle"
    /\ ret' = None
    /\ http_requests' = 0
    /\ http_response' = None
    /\ UNCHANGED <<config_provider, tool_call_aggregator, emitted, received>>
    /\ UNCHANGED <<agent_vars, concurrent_vars, assembly_vars>>

\* the request is built when no call is pending
BuildRequest ==
    /\ ppc = "idle"
    /\ SendRequest

NextAgentOpenAI ==
    \/ StartAttempt
    \/ BuildRequest
    \/ Completion
    \/ SendFails
    \/ RecvErrorStatus(500, Some(<<"rate limited">>))
    \/ \E body \in AgentBodies : AnswerBody(body)
    \/ ReturnMessage
    \/ ReturnToolCall
    \/ ReturnErr
    \/ NextCompletion
    \/ ExecuteTool([ok |-> TRUE, val |-> <<"12:00">>])
    \/ ValidateOk
    \/ ValidateFail(<<"not a JSON object">>)

SpecAgentOpenAI == Init /\ [][NextAgentOpenAI]_vars

\* the same under the hypothesis that every awaited call returns
SpecAgentOpenAIReturns == Init /\ [][NextAgentOpenAI]_vars /\ WF_vars(NextAgentOpenAI)

----------------------------------------------------------------------------
(* get_provider: from an LlmConfig to a provider *)

Providers == {"OpenAI", "Ollama", "Anthropic", "Custom"}

LlmConfigs ==
    [provider : Providers,
     model    : {"gpt-4o", "llama3"},
     api_key  : {None, Some("sk-1"), Some("sk-2")},
     base_url : {None, Some("http://localhost:8080/v1"), Some("https://llm.example/v1")}]

\* ConfigError of config.rs and its Display; {0:?} is the derived Debug of
\* Provider, the name of the variant
MissingApiKey(provider) == [kind |-> "MissingApiKey", provider |-> provider]
MissingBaseUrl == [kind |-> "MissingBaseUrl", provider |-> "Custom"]

ConfigErrorDisplay(e) ==
    IF e.kind = "MissingApiKey"
    THEN <<"Missing API key for provider: ", e.provider>>
    ELSE <<"Missing base URL for custom provider">>

\* replaces validate: nothing is required of any provider
validate_Lenient(config) == Ok(<<>>)

validate(config) ==
    CASE config.provider \in {"OpenAI", "Anthropic"} ->
             IF config.api_key = None THEN Err(MissingApiKey(config.provider)) ELSE Ok(<<>>)
      [] config.provider = "Custom" ->
             IF config.base_url = None THEN Err(MissingBaseUrl) ELSE Ok(<<>>)
      [] config.provider = "Ollama" -> Ok(<<>>)

OPENAI_BASE_URL == "https://api.openai.com/v1"

\* OpenAIProvider::new: the two `expect`s panic; client_built is whether
\* Client::builder().build() returned Ok
OpenAIProvider_new(config, client_built) ==
    IF config.api_key = None
    THEN [panicked |-> TRUE, message |-> "OpenAI provider requires an API key",
          kind |-> "OpenAIProvider", config |-> config, api_key |-> "", base_url |-> ""]
    ELSE IF ~client_built
    THEN [panicked |-> TRUE, message |-> "Failed to build Reqwest client",
          kind |-> "OpenAIProvider", config |-> config, api_key |-> "", base_url |-> ""]
    ELSE [panicked |-> FALSE, message |-> "",
          kind |-> "OpenAIProvider", config |-> config,
          api_key |-> Unwrap(config.api_key),
          base_url |-> IF config.base_url = None THEN OPENAI_BASE_URL
                       ELSE Unwrap(config.base_url)]

\* OllamaProvider::new: a provider holding the configuration
OllamaProvider_new(config) ==
    [panicked |-> FALSE, message |-> "",
     kind |-> "OllamaProvider", config |-> config, api_key |-> "", base_url |-> ""]

InitGetProvider ==
    /\ factory \in [pc : {"called"}, config : LlmConfigs, ret : {None}, panic : {None},
                    constructed : {<<>>}]
    /\ crew = [pc |-> "none", agents |-> 0, tasks |-> <<>>, workflow |-> "Sequential",
               next |-> 1, current_task |-> <<>>, current_task_output |-> <<>>,
               results |-> <<>>, ret |-> <<>>, called |-> <<>>]
    /\ ProviderIdle
    /\ ConcurrentIdle
    /\ NoAgentCall

\* config.validate().map_err(|e| ProviderError::ConfigError(e.to_string()))?
GetProviderValidate ==
    /\ factory.pc = "called"
    /\ factory' = IF validate(factory.config).ok
                  THEN [factory EXCEPT !.pc = "validated"]
                  ELSE [factory EXCEPT
                           !.pc = "returned",
                           !.ret = Some(Err(ConfigError(
                                       ConfigErrorDisplay(validate(factory.config).val))))]
    /\ UNCHANGED <<agent_vars, provider_vars, concurrent_vars, crew>>

\* what the arm of `match config.provider` does with the provider p a
\* constructor returned
Constructed(p) ==
    IF p.panicked
    THEN [factory EXCEPT !.pc = "panicked", !.panic = Some(p.message),
                         !.constructed = @ \o <<factory.config>>]
    ELSE [factory EXCEPT !.pc = "returned", !.ret = Some(Ok(p)),
                         !.constructed = @ \o <<factory.config>>]

\* match config.provider { ... }
GetProviderMatch(client_built) ==
    /\ factory.pc = "validated"
    /\ factory' =
          CASE factory.config.provider = "OpenAI" ->
                   Constructed(OpenAIProvider_new(factory.config, client_built))
            [] factory.config.provider = "Ollama" ->
                   Constructed(OllamaProvider_new(factory.config))
            [] factory.config.provider = "Anthropic" ->
                   [factory EXCEPT
                       !.pc = "returned",
                       !.ret = Some(Err(Unsupported(<<"Anthropic provider not yet implemented">>)))]
            [] factory.config.provider = "Custom" ->
                   [factory EXCEPT
                       !.pc = "returned",
                       !.ret = Some(Err(Unsupported(<<"Custom provider logic not yet implemented">>)))]
    /\ UNCHANGED <<agent_vars, provider_vars, concurrent_vars, crew>>

NextGetProvider ==
    \/ GetProviderValidate
    \/ \E client_built \in BOOLEAN : GetProviderMatch(client_built)

SpecGetProvider == InitGetProvider /\ [][NextGetProvider]_vars

----------------------------------------------------------------------------
(* Crew::run: the sequential hand-off of task outputs *)

\* In this section a text is the sequence of its characters, so that
\* chars().take(50) is computed as the code computes it.

\* the string literals of crew.rs, by a short name
CrewText(l) ==
    CASE l = "previous" ->
           <<"P", "r", "e", "v", "i", "o", "u", "s", " ", "T", "a", "s", "k", " ", "O",
             "u", "t", "p", "u", "t", ":", "\n">>
      [] l = "original" ->
           <<"\n", "\n", "-", "-", "-", "\n", "\n", "O", "r", "i", "g", "i", "n", "a",
             "l", " ", "T", "a", "s", "k", ":", "\n">>
      [] l = "empty" ->
           <<"N", "o", " ", "a", "g", "e", "n", "t", "s", " ", "o", "r", " ", "t", "a",
             "s", "k", "s", " ", "t", "o", " ", "r", "u", "n", ".">>
      [] l = "no output" ->
           <<"S", "e", "q", "u", "e", "n", "t", "i", "a", "l", " ", "r", "u", "n", " ",
             "c", "o", "m", "p", "l", "e", "t", "e", "d", " ", "w", "i", "t", "h", " ",
             "n", "o", " ", "o", "u", "t", "p", "u", "t", ".">>
      [] l = "hierarchical" ->
           <<"H", "i", "e", "r", "a", "r", "c", "h", "i", "c", "a", "l", " ", "w", "o",
             "r", "k", "f", "l", "o", "w", " ", "n", "o", "t", " ", "f", "u", "l", "l",
             "y", " ", "i", "m", "p", "l", "e", "m", "e", "n", "t", "e", "d", ".">>
      [] l = "failed" ->
           <<"A", "g", "e", "n", "t", " ", "f", "a", "i", "l", "e", "d", " ", "t", "o",
             " ", "e", "x", "e", "c", "u", "t", "e", " ", "t", "a", "s", "k", " ", "s",
             "t", "a", "r", "t", "i", "n", "g", " ", "w", "i", "t", "h", ":", " ", "'">>
      [] l = "quote" ->
           <<"'">>

\* the task lists: at most MaxTasks tasks, each one of two
CrewTask1 == [description |-> <<"S", "u", "m", " ", "t", "h", "e", " ", "l", "i", "s",
                                "t">>,
              expected_output |-> <<>>]
CrewTask2 == [description |-> <<"N", "a", "m", "e", " ", "t", "h", "e", " ", "l", "a",
                                "r", "g", "e", "s", "t">>,
              expected_output |-> <<>>]

CrewTasks == UNION {[1..n -> {CrewTask1, CrewTask2}] : n \in 0..MaxTasks}

\* what Agent::call may return: Ok(output) or Err(e)
CrewOutputs == {<<"4", "2">>, <<"n", "/", "a">>}
CrewErrors == {<<"L", "L", "M", " ", "e", "x", "e", "c", "u", "t", "i", "o", "n", " ",
                 "f", "a", "i", "l", "e", "d", " ", "a", "f", "t", "e", "r", " ", "3",
                 " ", "a", "t", "t", "e", "m", "p", "t", "s", ":", " ", "A", "P", "I",
                 " ", "r", "e", "q", "u", "e", "s", "t", " ", "f", "a", "i", "l", "e",
                 "d", ":", " ", "r", "e", "q", "w", "e", "s", "t">>}

\* s.chars().take(n).collect::<String>()
take(s, n) == IF Len(s) <= n THEN s ELSE SubSeq(s, 1, n)

\* format!("Previous Task Output:\n{}\n\n---\n\nOriginal Task:\n{}", output, description)
InjectPreviousOutput(output, description) ==
    CrewText("previous") \o output \o CrewText("original") \o description

\* anyhow!(e) under the context format!("Agent failed to execute task starting
\* with: '{}'", description.chars().take(50).collect::<String>())
with_context(e, description) ==
    [context |-> CrewText("failed") \o take(description, 50) \o CrewText("quote"),
     source  |-> e]

InitCrew ==
    /\ crew \in [pc : {"called"}, agents : 0..2, tasks : CrewTasks,
                 workflow : {"Sequential", "Hierarchical"}, next : {1},
                 current_task : {None}, current_task_output : {None},
                 results : {<<>>}, ret : {None}, called : {<<>>}]
    /\ factory = [pc |-> "none", config |-> <<>>, ret |-> <<>>, panic |-> <<>>,
                  constructed |-> <<>>]
    /\ ProviderIdle
    /\ ConcurrentIdle
    /\ NoAgentCall

\* replaces CrewRun: run_sequential without its check of the two lists
CrewRun_Unchecked ==
    /\ crew.pc = "called"
    /\ crew' = IF crew.workflow = "Hierarchical"
               THEN [crew EXCEPT !.pc = "returned",
                                 !.ret = Some(Ok(CrewText("hierarchical")))]
               ELSE [crew EXCEPT !.pc = "loop"]
    /\ UNCHANGED <<agent_vars, provider_vars, concurrent_vars, factory>>

\* run, and run_sequential up to its loop
CrewRun ==
    /\ crew.pc = "called"
    /\ crew' = IF crew.workflow = "Hierarchical"
               THEN [crew EXCEPT !.pc = "returned",
                                 !.ret = Some(Ok(CrewText("hierarchical")))]
               ELSE IF crew.agents = 0 \/ Len(crew.tasks) = 0
               THEN [crew EXCEPT !.pc = "returned", !.ret = Some(Ok(CrewText("empty")))]
               ELSE [crew EXCEPT !.pc = "loop", !.next = 1, !.results = <<>>,
                                 !.current_task_output = None]
    /\ UNCHANGED <<agent_vars, provider_vars, concurrent_vars, factory>>

\* the task the loop passes to agent.call: a clone of the list's task, its
\* description replaced when there is a previous output
CurrentTask(t, current_task_output, original) ==
    IF IsSome(current_task_output)
    THEN [t EXCEPT !.description =
                       InjectPreviousOutput(Unwrap(current_task_output), original)]
    ELSE t

\* replaces CrewNextTask: the injection wraps the description passed for the
\* task before instead of the task's own
CrewNextTask_Nested ==
    /\ crew.pc = "loop"
    /\ crew' =
          IF crew.next > Len(crew.tasks)
          THEN [crew EXCEPT
                   !.pc = "returned",
                   !.ret = Some(Ok(IF IsSome(crew.current_task_output)
                                   THEN Unwrap(crew.current_task_output)
                                   ELSE CrewText("no output")))]
          ELSE [crew EXCEPT
                   !.pc = "awaiting",
                   !.current_task =
                       Some(CurrentTask(crew.tasks[crew.next], crew.current_task_output,
                                        IF IsSome(crew.current_task)
                                        THEN Unwrap(crew.current_task).description
                                        ELSE crew.tasks[crew.next].description)),
                   !.called = @ \o <<[agent |-> 1,
                       task |-> CurrentTask(crew.tasks[crew.next], crew.current_task_output,
                                        IF IsSome(crew.current_task)
                                        THEN Unwrap(crew.current_task).description
                                        ELSE crew.tasks[crew.next].description)]>>]
    /\ UNCHANGED <<agent_vars, provider_vars, concurrent_vars, factory>>

\* one turn of `for task in &self.tasks` up to agent.call(..).await on
\* self.agents[0], or the end of the loop and the return of the last output
CrewNextTask ==
    /\ crew.pc = "loop"
    /\ crew' =
          IF crew.next > Len(crew.tasks)
          THEN [crew EXCEPT
                   !.pc = "returned",
                   !.ret = Some(Ok(IF IsSome(crew.current_task_output)
                                   THEN Unwrap(crew.current_task_output)
                                   ELSE CrewText("no output")))]
          ELSE [crew EXCEPT
                   !.pc = "awaiting",
                   !.current_task =
                       Some(CurrentTask(crew.tasks[crew.next], crew.current_task_output,
                                        crew.tasks[crew.next].description)),
                   !.called = @ \o <<[agent |-> 1,
                       task |-> CurrentTask(crew.tasks[crew.next], crew.current_task_output,
                                            crew.tasks[crew.next].description)]>>]
    /\ UNCHANGED <<agent_vars, provider_vars, concurrent_vars, factory>>

\* agent.call returned Ok(output): the `result` of the loop body
AgentCallOk(output) ==
    /\ crew.pc = "awaiting"
    /\ crew' = [crew EXCEPT !.pc = "loop",
                            !.current_task_output = Some(output),
                            !.results = Append(@, output),
                            !.next = @ + 1]
    /\ UNCHANGED <<agent_vars, provider_vars, concurrent_vars, factory>>

\* replaces AgentCallErr: the failed task is skipped and the loop goes on
AgentCallErr_Skip(e) ==
    /\ crew.pc = "awaiting"
    /\ crew' = [crew EXCEPT !.pc = "loop", !.next = @ + 1]
    /\ UNCHANGED <<agent_vars, provider_vars, concurrent_vars, factory>>

\* agent.call returned Err(e): `?` returns the error under its context
AgentCallErr(e) ==
    /\ crew.pc = "awaiting"
    /\ crew' = [crew EXCEPT
                   !.pc = "returned",
                   !.ret = Some(Err(with_context(e, Unwrap(crew.current_task).description)))]
    /\ UNCHANGED <<agent_vars, provider_vars, concurrent_vars, factory>>

NextCrew ==
    \/ CrewRun
    \/ CrewNextTask
    \/ \E output \in CrewOutputs : AgentCallOk(output)
    \/ \E e \in CrewErrors : AgentCallErr(e)

SpecCrew == InitCrew /\ [][NextCrew]_vars

----------------------------------------------------------------------------
(* Properties *)

Returned == IsSome(result)
ReturnedOk == IsSome(result) /\ Unwrap(result).ok
ReturnedErr == IsSome(result) /\ ~Unwrap(result).ok

NumRole(m, role) == Cardinality({i \in 1..Len(m) : m[i].role = role})

\* C1: when the output of attempt k < 3 fails validation, the first completion
\* request of attempt k+1 contains a User turn quoting that validation error.
C1_CorrectiveInNextRequest ==
    (pc = "inflight" /\ reqInAttempt = 1 /\ lastEnd.kind = "validation")
        => \E i \in 1..Len(request) :
               /\ request[i].role = "user"
               /\ Contains(Unwrap(request[i].content), lastEnd.err)

\* C2: never more than 3 attempts; and when every attempt received a Message
\* at its first request and every validation failed, the call ends in an error
\* after exactly 3 seed constructions and 3 validations.
C2_RetryBounded ==
    /\ nSeeds <= 3
    /\ attempt <= 3
    /\ nValidations <= 3
    /\ (pc = "done" /\ nRequests = nSeeds /\ nValidations = nSeeds /\ lastEnd.kind = "validation")
          => (nSeeds = 3 /\ nValidations = 3 /\ ReturnedErr)

C2_Witness ==
    /\ pc = "done" /\ nRequests = 3 /\ nSeeds = 3 /\ nValidations = 3
    /\ rounds = 0 /\ lastEnd.kind = "validation" /\ ReturnedErr

\* C3: Ok(text) is returned only for the content of a Message result of the
\* current attempt that validate_output accepted.
C3_OkOnlyValidated ==
    ReturnedOk =>
        /\ raw_result = Some(Unwrap(result).val)
        /\ validated = Some([text |-> Unwrap(result).val, attempt |-> attempt, verdict |-> "ok"])

C3_Witness ==
    /\ ReturnedOk /\ attempt = 2 /\ nValidations = 2
    /\ Unwrap(validated).verdict = "ok"

\* every Tool turn of m answers a call of the nearest preceding Assistant turn
RoleSequenced(m) ==
    \A i \in 1..Len(m) :
        m[i].role = "tool" =>
            \E a \in 1..(i - 1) :
                /\ m[a].role = "assistant"
                /\ \A b \in (a + 1)..(i - 1) : m[b].role # "assistant"
                /\ IsSome(m[a].tool_calls)
                /\ IsSome(m[i].tool_call_id)
                /\ \E c \in 1..Len(Unwrap(m[a].tool_calls)) :
                       Unwrap(m[a].tool_calls)[c].id = Unwrap(m[i].tool_call_id)

\* C4: in every transcript sent, each Tool turn's tool_call_id is the id of a
\* call of the nearest preceding Assistant turn.
C4_RoleSequencing == RoleSequenced(request) /\ RoleSequenced(messages)

C4_Witness ==
    /\ pc = "inflight"
    /\ NumRole(request, "assistant") = 2
    /\ NumRole(request, "tool") = 3

\* the transcript m consists, after its first n0 messages, of whole rounds:
\* one Assistant turn carrying a call list followed by one Tool turn per call,
\* in list order, each echoing the id of its call
RECURSIVE WholeRounds(_, _)
WholeRounds(m, from) ==
    IF from > Len(m) THEN TRUE
    ELSE /\ m[from].role = "assistant"
         /\ m[from].content = None
         /\ IsSome(m[from].tool_calls)
         /\ LET calls == Unwrap(m[from].tool_calls) IN
              /\ from + Len(calls) <= Len(m)
              /\ \A j \in 1..Len(calls) :
                    /\ m[from + j].role = "tool"
                    /\ m[from + j].tool_call_id = Some(calls[j].id)
              /\ WholeRounds(m, from + Len(calls) + 1)

\* C5: a ToolCall result appends one Assistant turn carrying the calls; the
\* calls are executed one at a time in list order, each followed by its Tool
\* turn; the next completion request is issued only after all of them.
C5_SequentialDispatch ==
    /\ pc = "inflight" =>
          /\ WholeRounds(request, Len(Seed(task)) + 1)
          /\ NumRole(request, "assistant") = reqInAttempt - 1
          /\ Len(executed) = Len(tool_calls)
    /\ pc = "tools" =>
          /\ Len(executed) = next_call - 1
          /\ next_call <= Len(tool_calls)
          /\ NumRole(messages, "assistant") = reqInAttempt
          /\ LET base == Len(messages) - Len(executed) IN
               /\ base > Len(Seed(task))
               /\ messages[base] = ChatMessage("assistant", None, Some(tool_calls), None)
               /\ WholeRounds(SubSeq(messages, 1, base - 1), Len(Seed(task)) + 1)
               /\ \A j \in 1..Len(executed) :
                     /\ executed[j].call = tool_calls[j]
                     /\ messages[base + j].role = "tool"
                     /\ messages[base + j].tool_call_id = Some(tool_calls[j].id)
    /\ \A j \in 1..Len(executed) : j <= Len(tool_calls) /\ executed[j].call = tool_calls[j]

C5_Witness ==
    /\ pc = "inflight"
    /\ reqInAttempt = 3
    /\ Len(tool_calls) = 2
    /\ tool_calls[1] # tool_calls[2]
    /\ Len(request) = Len(Seed(task)) + 5

\* C6: a failure of execute_tool becomes the text of that call's Tool turn;
\* the remaining calls of the batch are still executed and answered; the step
\* neither ends the attempt nor makes the call return.
C6_ToolFailureAbsorbed ==
    /\ [](\A j \in 1..Len(executed) :
             LET turn == messages[Len(messages) - Len(executed) + j] IN
               (pc \in {"tools", "await", "inflight"} /\ ~executed[j].outcome.ok) =>
                  /\ turn.role = "tool"
                  /\ turn.tool_call_id = Some(executed[j].call.id)
                  /\ IsSome(turn.content)
                  /\ Contains(Unwrap(turn.content), executed[j].outcome.val)
                  /\ Contains(Unwrap(turn.content), executed[j].call.function.name))
    /\ []((pc \in {"await", "inflight"}) => Len(executed) = Len(tool_calls))
    /\ [][pc = "tools" =>
            /\ attempt' = attempt
            /\ nSeeds' = nSeeds
            /\ result' = None
            /\ pc' = (IF next_call < Len(tool_calls) THEN "tools" ELSE "await")]_vars

C6_Witness ==
    /\ pc = "inflight"
    /\ Len(executed) = 2
    /\ ~executed[1].outcome.ok
    /\ executed[2].outcome.ok
    /\ attempt = 1
    /\ result = None

TransportOrParse == {"RequestError", "ApiError", "ParseError"}

\* C7: a transport or parse error in attempt k ends the attempt; for k < 3 the
\* loop is back at its head with attempts left or in a later attempt, and for
\* k = 3 the call has returned an error holding that error text and the
\* number 3.
C7_ProviderErrorRetried ==
    (lastEnd.kind = "provider" /\ lastEnd.err \in {to_string(e) : e \in TransportOrParse}) =>
        IF lastEnd.attempt = 3
        THEN /\ pc = "done"
             /\ nSeeds = 3
             /\ ReturnedErr
             /\ Contains(Unwrap(result).val, lastEnd.err)
             /\ Contains(Unwrap(result).val, <<"3">>)
        ELSE /\ result = None
             /\ \/ pc = "loop" /\ attempt = lastEnd.attempt /\ attempt < 3
                \/ attempt = lastEnd.attempt + 1 /\ nSeeds = attempt

C7_Witness ==
    /\ pc = "done"
    /\ lastEnd = [kind |-> "provider", err |-> to_string("ParseError"), attempt |-> 3]
    /\ nSeeds = 3
    /\ nRequests = 3
    /\ nValidations = 0
    /\ ReturnedErr

IsConfigError == lastEnd.kind = "provider" /\ lastEnd.err = to_string("ConfigError")

\* C8 as stated: after a ConfigError of the provider the call has failed, no
\* further attempt is started and no further completion request is issued.
C8_ConfigFailsImmediately ==
    IsConfigError => (attempt = lastEnd.attempt /\ pc # "inflight")

\* C8 amended: a ConfigError of the provider is handled like every other
\* provider error: it uses up attempt k; for k < 3 the loop is back at its head
\* with attempts left or in attempt k+1, and for k = 3 the call has returned an
\* error holding the ConfigError text and the number 3.
C8_ConfigErrorRetried ==
    IsConfigError =>
        IF lastEnd.attempt = 3
        THEN /\ pc = "done"
             /\ nSeeds = 3
             /\ ReturnedErr
             /\ Contains(Unwrap(result).val, lastEnd.err)
             /\ Contains(Unwrap(result).val, <<"3">>)
        ELSE /\ result = None
             /\ \/ pc = "loop" /\ attempt = lastEnd.attempt /\ attempt < 3
                \/ attempt = lastEnd.attempt + 1 /\ nSeeds = attempt

C8_Witness ==
    /\ IsConfigError
    /\ lastEnd.attempt = 1
    /\ attempt = 2
    /\ pc = "inflight"
    /\ nRequests = 2

\* C9: once validate_output accepts in attempt k, the call has returned Ok with
\* exactly that text, k attempts have been made, and no further step
\* (completion request, tool execution, attempt) is possible.
C9_FirstPassReturns ==
    (IsSome(validated) /\ Unwrap(validated).verdict = "ok") =>
        /\ pc = "done"
        /\ result = Some(Ok(Unwrap(validated).text))
        /\ Unwrap(validated).attempt = attempt
        /\ nSeeds = attempt
        /\ attempt \in 1..3
        /\ ~ENABLED Next

C9_Witness ==
    /\ pc = "done"
    /\ attempt = 2
    /\ nSeeds = 2
    /\ nValidations = 2
    /\ result = Some(Ok(<<"{\"answer\":42}">>))
    /\ Unwrap(validated).verdict = "ok"

\* C10: the attempt counter advances only at the loop head after an attempt
\* ended in a provider failure or a validation failure; a ToolCall result and
\* the tool executions leave it alone, so one attempt may hold more than 3
\* completion requests.
C10_RoundsAreNotAttempts ==
    /\ []((pc \in {"await", "inflight", "tools", "validate"}) =>
             /\ nSeeds = attempt
             /\ lastEnd.attempt = attempt - 1
             /\ (attempt > 1 => lastEnd.kind \in {"provider", "validation"})
             /\ reqInAttempt = NumRole(messages, "assistant")
                                  + (IF pc \in {"inflight", "validate"} THEN 1 ELSE 0))
    /\ [][attempt' # attempt =>
            /\ attempt' = attempt + 1
            /\ pc = "loop"
            /\ (attempt = 0 \/ (lastEnd.attempt = attempt
                                /\ lastEnd.kind \in {"provider", "validation"}))]_vars
    /\ [][(rounds' # rounds \/ pc = "tools") =>
            /\ attempt' = attempt
            /\ nSeeds' = nSeeds
            /\ result' = result]_vars

C10_Witness ==
    /\ pc = "validate"
    /\ attempt = 1
    /\ nSeeds = 1
    /\ nRequests = 4
    /\ rounds = 3

\* C11: every attempt starts from the same three messages: System(backstory),
\* User(goals joined by newline), User(task description, expected output and
\* format prompt).  The transcript at the start of an attempt, and the first
\* request of the attempt, hold exactly these and no Assistant or Tool turn of
\* an earlier attempt, whatever the attempt number.
C11_SeedPerAttempt ==
    LET seed == << [role |-> "system", content |-> <<backstory>>,
                    tool_calls |-> <<>>, tool_call_id |-> <<>>],
                   [role |-> "user", content |-> <<goals[1] \o <<"\n">> \o goals[2]>>,
                    tool_calls |-> <<>>, tool_call_id |-> <<>>],
                   [role |-> "user",
                    content |-> << <<"TASK: ">> \o task.description
                                   \o <<"\n\nEXPECTED OUTPUT: ">>
                                   \o (IF task.expected_output = <<>> THEN <<"None">>
                                       ELSE task.expected_output[1])
                                   \o <<"\n\nOUTPUT FORMAT:\n">> \o format_prompt >>,
                    tool_calls |-> <<>>, tool_call_id |-> <<>>] >>
    IN /\ (pc = "await" /\ reqInAttempt = 0) => messages = seed
       /\ (pc = "inflight" /\ reqInAttempt = 1) =>
             /\ request = seed
             /\ NumRole(request, "assistant") = 0
             /\ NumRole(request, "tool") = 0

C11_Witness ==
    /\ pc = "inflight"
    /\ attempt = 3
    /\ reqInAttempt = 1
    /\ rounds = 3
    /\ lastEnd.kind = "validation"
    /\ Len(request) = 3

----------------------------------------------------------------------------
(* Properties of the streaming response *)

RECURSIVE Flatten(_)
\* the data lines of a sequence of transport chunks, in arrival order
Flatten(cs) == IF Len(cs) = 0 THEN <<>> ELSE Head(cs) \o Flatten(Tail(cs))

\* the data lines received so far
LinesReceived == Flatten(received)

HasChoice(l) == l.kind = "json" /\ Len(l.choices) # 0
\* a line whose delta lists tool calls and has no content field
IsToolLine(l) ==
    /\ HasChoice(l)
    /\ ~IsSome(l.choices[1].delta.content)
    /\ IsSome(l.choices[1].delta.tool_calls)
\* a line whose delta has a content field (possibly the empty string)
IsContentLine(l) == HasChoice(l) /\ IsSome(l.choices[1].delta.content)
\* a line whose delta carries text
IsTextLine(l) == IsContentLine(l) /\ l.choices[1].delta.content # <<<<>>>>

RECURSIVE ToolDeltasReceived(_)
\* the tool-call deltas of a sequence of lines, in arrival order
ToolDeltasReceived(ls) ==
    IF Len(ls) = 0 THEN <<>>
    ELSE (IF IsToolLine(Head(ls)) THEN Head(ls).choices[1].delta.tool_calls[1] ELSE <<>>)
         \o ToolDeltasReceived(Tail(ls))

RECURSIVE FragmentsFor(_, _)
\* the argument fragments of index i in a sequence of tool-call deltas, concatenated
FragmentsFor(tds, i) ==
    IF Len(tds) = 0 THEN <<>>
    ELSE (IF Head(tds).index = i /\ Head(tds).function # <<>>
             /\ Head(tds).function[1].arguments # <<>>
          THEN Head(tds).function[1].arguments[1] ELSE <<>>)
         \o FragmentsFor(Tail(tds), i)

RECURSIVE EntriesEmitted(_)
\* the entries of the ToolCallDelta chunks of a sequence of yielded items, in order
EntriesEmitted(items) ==
    IF Len(items) = 0 THEN <<>>
    ELSE (IF Head(items).ok /\ Head(items).val.delta.kind = "ToolCallDelta"
          THEN Head(items).val.delta.deltas ELSE <<>>)
         \o EntriesEmitted(Tail(items))

RECURSIVE TextEmitted(_)
\* the texts of the Text chunks of a sequence of yielded items, concatenated
TextEmitted(items) ==
    IF Len(items) = 0 THEN <<>>
    ELSE (IF Head(items).ok /\ Head(items).val.delta.kind = "Text"
          THEN Head(items).val.delta.text ELSE <<>>)
         \o TextEmitted(Tail(items))

RECURSIVE ContentReceived(_)
\* the content deltas of a sequence of lines, concatenated
ContentReceived(ls) ==
    IF Len(ls) = 0 THEN <<>>
    ELSE (IF IsContentLine(Head(ls)) THEN Head(ls).choices[1].delta.content[1] ELSE <<>>)
         \o ContentReceived(Tail(ls))

\* positions of a sequence whose element has index i
PositionsOf(entries, i) == {k \in 1..Len(entries) : entries[k].index = i}
MaxOf(S) == CHOOSE k \in S : \A j \in S : j <= k
MinOf(S) == CHOOSE k \in S : \A j \in S : k <= j

Streaming == ppc \in {"streaming", "ended"}

\* C12: in a response made of tool-call deltas only, for each index i that
\* received a delta, a ToolCallDelta for i was emitted and the last one emitted
\* shows as arguments the concatenation, in arrival order, of all fragments
\* received for i.
C12_ArgumentsReassembled ==
    (Streaming /\ \A k \in 1..Len(LinesReceived) : IsToolLine(LinesReceived[k])) =>
        \A i \in {ToolDeltasReceived(LinesReceived)[k].index :
                     k \in 1..Len(ToolDeltasReceived(LinesReceived))} :
            /\ PositionsOf(EntriesEmitted(emitted), i) # {}
            /\ EntriesEmitted(emitted)[MaxOf(PositionsOf(EntriesEmitted(emitted), i))]
                   .function[1].arguments
                 = <<FragmentsFor(ToolDeltasReceived(LinesReceived), i)>>

\* the tool-call deltas received that carry an id, respectively a name
WithId(tds) == SelectSeq(tds, LAMBDA td : td.id # <<>>)
WithName(tds) == SelectSeq(tds, LAMBDA td : td.function # <<>> /\ td.function[1].name # <<>>)

\* C13: in a response made of tool-call deltas only, every emitted
\* ToolCallDelta entry of index i shows the first id and the first name
\* received for i, whatever later deltas for i carry.
C13_FirstWriteWins ==
    (Streaming /\ \A k \in 1..Len(LinesReceived) : IsToolLine(LinesReceived[k])) =>
        \A k \in 1..Len(EntriesEmitted(emitted)) :
            LET e == EntriesEmitted(emitted)[k]
                ids == WithId(ToolDeltasReceived(LinesReceived))
                names == WithName(ToolDeltasReceived(LinesReceived))
            IN /\ PositionsOf(ids, e.index) # {} =>
                     e.id = ids[MinOf(PositionsOf(ids, e.index))].id
               /\ PositionsOf(names, e.index) # {} =>
                     e.function[1].name
                       = names[MinOf(PositionsOf(names, e.index))].function[1].name

RECURSIVE Decoded(_)
\* the lines of a transport chunk the closure decoded: those before the first
\* malformed one
Decoded(ls) ==
    IF Len(ls) = 0 \/ Head(ls).kind = "malformed" THEN <<>>
    ELSE <<Head(ls)>> \o Decoded(Tail(ls))

RECURSIVE LinesDecoded(_)
LinesDecoded(cs) == IF Len(cs) = 0 THEN <<>> ELSE Decoded(Head(cs)) \o LinesDecoded(Tail(cs))

\* the lines after the last line of ls that carries text / that has a content field
SinceLastText(ls) ==
    IF \E k \in 1..Len(ls) : IsTextLine(ls[k])
    THEN SubSeq(ls, MaxOf({k \in 1..Len(ls) : IsTextLine(ls[k])}) + 1, Len(ls))
    ELSE ls
SinceLastContent(ls) ==
    IF \E k \in 1..Len(ls) : IsContentLine(ls[k])
    THEN SubSeq(ls, MaxOf({k \in 1..Len(ls) : IsContentLine(ls[k])}) + 1, Len(ls))
    ELSE ls

\* the accumulator a sequence of lines builds from nothing
Accumulated(ls) ==
    ApplyToolDeltas(ToolDeltasReceived(ls), [map |-> {}, generic_deltas |-> <<>>]).map

\* the entry of index 0 that the delta of T0b alone produces
FreshT0b ==
    [index |-> 0, id |-> << <<"call_2">> >>,
     function |-> << [name |-> << <<"get_time">> >>, arguments |-> << <<"1}">> >>] >>]

NoMalformed == \A k \in 1..Len(LinesReceived) : LinesReceived[k].kind # "malformed"

\* C15: in a response without malformed lines, the Text chunks emitted,
\* concatenated in order, are the content deltas received, concatenated in
\* arrival order, however the data lines are grouped into transport chunks.
C15_TextPassThrough ==
    (Streaming /\ NoMalformed) => TextEmitted(emitted) = ContentReceived(LinesReceived)

\* C16: in a response without malformed lines, for every data line received
\* that carries a finish_reason, respectively a usage, some emitted chunk
\* carries that finish_reason, respectively that usage.
C16_TerminalMarkerEmitted ==
    (Streaming /\ NoMalformed) =>
        \A k \in 1..Len(LinesReceived) :
            /\ (HasChoice(LinesReceived[k]) /\ LinesReceived[k].choices[1].finish_reason # <<>>) =>
                  \E j \in 1..Len(emitted) :
                      /\ emitted[j].ok
                      /\ emitted[j].val.finish_reason = LinesReceived[k].choices[1].finish_reason
            /\ (LinesReceived[k].kind = "json" /\ LinesReceived[k].usage # <<>>) =>
                  \E j \in 1..Len(emitted) :
                      /\ emitted[j].ok
                      /\ emitted[j].val.usage = <<TokenUsage(LinesReceived[k].usage[1])>>

\* C17: a ParseError is the last item of the stream: nothing is yielded after
\* it (so no later chunk can show state accumulated before the error).
C17_ParseErrorTerminates ==
    Streaming => \A k \in 1..Len(emitted) : ~emitted[k].ok => k = Len(emitted)

----------------------------------------------------------------------------
(* Properties of completion and of the entry of completion_stream *)

\* completion returned after a 2xx response whose body decoded and has a choice
CompletionDecoded ==
    /\ op = "completion"
    /\ ppc = "returned"
    /\ http_response # <<>>
    /\ http_response[1].status = 200
    /\ http_response[1].body.kind = "json"
    /\ Len(http_response[1].body.choices) # 0

\* C18: the first choice of a 2xx response is mapped to ToolCall with the
\* vendor's calls if it carries tool-call entries (a non-empty tool_calls
\* array); otherwise to Message{content} if it carries text content, also when
\* tool_calls is an empty array; otherwise to ToolCall with no call if
\* finish_reason is "tool_calls"; otherwise to Message with the empty string.
C18_KindOfFirstChoice ==
    CompletionDecoded =>
        LET first_choice == http_response[1].body.choices[1]
            calls == IF first_choice.message.tool_calls = <<>> THEN <<>>
                     ELSE first_choice.message.tool_calls[1]
            kind == ret[1].val.kind
        IN /\ ret[1].ok
           /\ IF Len(calls) # 0
              THEN /\ kind.kind = "ToolCall"
                   /\ Len(kind.tool_calls) = Len(calls)
                   /\ \A i \in 1..Len(calls) :
                         /\ kind.tool_calls[i].id = calls[i].id
                         /\ kind.tool_calls[i].function.name = calls[i].function.name
                         /\ kind.tool_calls[i].function.arguments = calls[i].function.arguments
              ELSE IF first_choice.message.content # <<>>
              THEN kind.kind = "Message" /\ kind.content = first_choice.message.content[1]
              ELSE IF first_choice.finish_reason = <<"tool_calls">>
              THEN kind.kind = "ToolCall" /\ kind.tool_calls = <<>>
              ELSE kind.kind = "Message" /\ kind.content = <<>>

\* a response whose status is outside 2xx was received
ErrorStatusReceived ==
    /\ http_response # <<>>
    /\ http_response[1].status \notin 200..299

\* C19: after a response with a status outside 2xx, completion and
\* completion_stream have returned ApiError with that status and the response
\* body (a fixed text when the body cannot be read) having sent exactly one
\* HTTP request; no call ever sends a second request; and the error text that
\* execute_with_llm hands to the agent loop, and the loop's final error built
\* from it, name the status and the body.
C19_ApiErrorOnce ==
    /\ http_requests <= 1
    /\ ErrorStatusReceived =>
          LET status == http_response[1].status
              body == IF http_response[1].body # <<>> THEN http_response[1].body[1]
                      ELSE <<"Failed to read error body">>
              digits == IF status = 401 THEN <<"4", "0", "1">> ELSE <<"5", "0", "0">>
          IN /\ ppc = "returned"
             /\ http_requests = 1
             /\ tool_call_aggregator = <<>>
             /\ ret = <<[ok |-> FALSE,
                         val |-> [kind |-> "ApiError", status |-> status, message |-> body]]>>
             /\ execute_with_llm_Err(ret[1].val)
                  = [ok |-> FALSE,
                     val |-> <<"API response error: ">> \o digits \o <<": ">> \o body]
             /\ Contains(ErrLLM(execute_with_llm_Err(ret[1].val).val),
                         <<"API response error: ">> \o digits \o <<": ">> \o body)

C19_Witness ==
    /\ op = "completion"
    /\ ppc = "returned"
    /\ http_requests = 1
    /\ http_response = <<[status |-> 401, body |-> << <<"rate limited">> >>]>>
    /\ ret # <<>>
    /\ ret[1].val.kind = "ApiError"

\* C20: completion_stream called with request.tools set, the empty list
\* included, has returned Unsupported without sending an HTTP request and
\* without creating the accumulator, whatever the configuration; a
\* completion_stream call that sent a request had no tools field.
C20_StreamWithToolsUnsupported ==
    /\ (op = "completion_stream" /\ req_tools # <<>>) =>
          /\ ppc = "returned"
          /\ ret # <<>>
          /\ ~ret[1].ok
          /\ ret[1].val.kind = "Unsupported"
          /\ http_requests = 0
          /\ http_response = <<>>
          /\ tool_call_aggregator = <<>>
          /\ emitted = <<>>
    /\ (op = "completion_stream" /\ (http_requests # 0 \/ tool_call_aggregator # <<>>)) =>
          req_tools = <<>>

C20_Witness ==
    /\ op = "completion_stream"
    /\ req_tools = << <<>> >>
    /\ config_provider = "Ollama"
    /\ ppc = "returned"
    /\ ret[1].val.kind = "Unsupported"
    /\ http_requests = 0

----------------------------------------------------------------------------
(* Properties of the transcript *)

\* the optional fields of every message of m fit its role
FieldsFitRole(m) ==
    \A i \in 1..Len(m) :
        /\ m[i].tool_calls # <<>> => m[i].role = "assistant"
        /\ m[i].tool_call_id # <<>> => m[i].role = "tool"
        /\ m[i].role = "assistant" =>
              m[i].content = <<>> /\ m[i].tool_calls # <<>> /\ m[i].tool_call_id = <<>>
        /\ m[i].role = "tool" =>
              m[i].content # <<>> /\ m[i].tool_calls = <<>> /\ m[i].tool_call_id # <<>>
        /\ m[i].role \in {"system", "user"} =>
              m[i].content # <<>> /\ m[i].tool_calls = <<>> /\ m[i].tool_call_id = <<>>

\* C27: in every completion request, and in the transcript at all times,
\* tool_calls is set only on Assistant messages and tool_call_id only on Tool
\* messages; every Assistant turn has no content and a call list, every Tool
\* turn has content and no call list.
C27_FieldsByRole == FieldsFitRole(request) /\ FieldsFitRole(messages)

C27_Witness ==
    /\ pc = "inflight"
    /\ Len(request) = 7
    /\ request[4].role = "assistant"
    /\ request[4].tool_calls = << <<>> >>
    /\ request[5].role = "assistant"
    /\ request[6].role = "tool"
    /\ request[7].role = "tool"

IsPrefix(a, b) == Len(a) <= Len(b) /\ SubSeq(b, 1, Len(a)) = a

\* C28: within one attempt the transcript only grows at its end; a request
\* carries the whole transcript; a ToolCall result appends to the messages of
\* the request it answers one Assistant turn carrying the calls, each tool
\* execution appends one Tool turn, and the next request is the previous one
\* followed by that Assistant turn and one Tool turn per call.
C28_AppendOnly ==
    /\ [](pc = "inflight" => request = messages)
    /\ [][attempt' = attempt => IsPrefix(messages, messages')]_vars
    /\ [][(pc = "inflight" /\ pc' \in {"await", "tools"}) =>
            messages' = request \o <<[role |-> "assistant", content |-> <<>>,
                                      tool_calls |-> <<tool_calls'>>,
                                      tool_call_id |-> <<>>]>>]_vars
    /\ [][pc = "tools" =>
            /\ Len(messages') = Len(messages) + 1
            /\ messages'[Len(messages')].role = "tool"
            /\ Len(executed') = Len(executed) + 1]_vars
    /\ []((pc = "inflight" /\ reqInAttempt >= 2) =>
            /\ Len(executed) = Len(tool_calls)
            /\ Len(request) > Len(tool_calls) + 3
            /\ request[Len(request) - Len(tool_calls)].role = "assistant"
            /\ request[Len(request) - Len(tool_calls)].tool_calls = <<tool_calls>>
            /\ \A j \in 1..Len(tool_calls) :
                  request[Len(request) - Len(tool_calls) + j].role = "tool")

C28_Witness ==
    /\ pc = "inflight"
    /\ reqInAttempt = 3
    /\ Len(tool_calls) = 2
    /\ Len(request) = 8
    /\ request[4].tool_calls = << <<TC1>> >>

\* C29: the first request of an attempt that follows a provider failure
\* carries exactly the three seed messages, none of them a corrective
\* feedback turn.
C29_SeedAfterProviderFailure ==
    (pc = "inflight" /\ reqInAttempt = 1 /\ lastEnd.kind = "provider") =>
        /\ attempt = lastEnd.attempt + 1
        /\ Len(request) = 3
        /\ request[1] = [role |-> "system", content |-> <<backstory>>,
                         tool_calls |-> <<>>, tool_call_id |-> <<>>]
        /\ request[2].role = "user"
        /\ request[2].content = <<goals[1] \o <<"\n">> \o goals[2]>>
        /\ request[3].role = "user"
        /\ request[3].content[1][1] = "TASK: "
        /\ \A i \in 1..Len(request) :
              /\ ~Contains(request[i].content[1], <<"Your previous response was invalid: ">>)
              /\ ~Contains(request[i].content[1], lastEnd.err)

C29_Witness ==
    /\ pc = "inflight"
    /\ reqInAttempt = 1
    /\ attempt = 3
    /\ lastEnd.kind = "provider"
    /\ lastEnd.err[1] = "API request failed: "
    /\ rounds = 2
    /\ request = Seed(task)


\* C30: Agent::call terminates, having started at most 3 attempts, in every
\* execution in which each request, tool execution and validation returns and
\* the provider answers ToolCall finitely often (at most MaxRounds times
\* here); the tool loop has no bound of its own: whatever the number of
\* requests already sent in the attempt, a further ToolCall answer is taken
C30_Terminates ==
    /\ <>(pc = "done")
    /\ [](attempt <= MAX_RETRIES /\ nSeeds <= MAX_RETRIES)
    /\ [](pc = "done" => /\ result # None
                         /\ nSeeds = attempt
                         /\ attempt \in 1..MAX_RETRIES)
    /\ []((pc = "inflight" /\ rounds < MaxRounds)
            => ENABLED (\E calls \in Batches : RecvToolCall(calls)))

\* the call returned in its third attempt after MaxRounds tool round-trips,
\* all of them in one attempt
C30_Witness ==
    /\ pc = "done"
    /\ attempt = MAX_RETRIES
    /\ rounds = MaxRounds
    /\ reqInAttempt = MaxRounds + 1
    /\ result # None

----------------------------------------------------------------------------
(* Properties of the stream: emission, framing, indices *)

\* every data line received is a tool-call delta line
OnlyToolLines == \A k \in 1..Len(LinesReceived) : IsToolLine(LinesReceived[k])

\* C23: in a stream of tool-call deltas, every delta applied to an index is
\* followed by the emission of a ToolCallDelta entry with the state of that
\* index, so when the stream has ended as many entries were emitted as deltas
\* were received, and the final accumulated state of every index is among
\* them, however the lines were grouped into transport chunks.
C23_EveryStateEmitted ==
    (ppc = "ended" /\ OnlyToolLines)
        => /\ Len(EntriesEmitted(emitted)) = Len(ToolDeltasReceived(LinesReceived))
           /\ \A e \in Unwrap(tool_call_aggregator) :
                  \E k \in 1..Len(EntriesEmitted(emitted)) : EntriesEmitted(emitted)[k] = e

\* the lines received are whole, or cut in two pieces that arrive one after
\* the other: the head last in its transport chunk, the tail first in the next
WellFramed ==
    LET ls == LinesReceived IN
    /\ \A k \in 1..Len(ls) :
          /\ ls[k].kind = "head"
                => k < Len(ls) /\ ls[k + 1] = [ls[k] EXCEPT !.kind = "tail"]
          /\ ls[k].kind = "tail"
                => k > 1 /\ ls[k - 1] = [ls[k] EXCEPT !.kind = "head"]
    /\ \A c \in 1..Len(received) : \A k \in 1..Len(received[c]) :
          /\ received[c][k].kind = "head" => k = Len(received[c])
          /\ received[c][k].kind = "tail" => k = 1

RECURSIVE DataLines(_)
\* the SSE data lines of a sequence of received lines: the two pieces of a
\* cut line are one data line
DataLines(ls) ==
    IF Len(ls) = 0 THEN <<>>
    ELSE IF Head(ls).kind = "head" /\ Len(ls) >= 2
    THEN <<[Head(ls) EXCEPT !.kind = "json"]>> \o DataLines(Tail(Tail(ls)))
    ELSE <<Head(ls)>> \o DataLines(Tail(ls))

RECURSIVE OneByOne(_, _), OneByOneFrom(_, _)
\* what the stream yields for a sequence of data lines that arrive one line to
\* a transport chunk, starting with the map current_tool_calls
OneByOne(ls, current_tool_calls) ==
    IF Len(ls) = 0 THEN <<>>
    ELSE OneByOneFrom(Closure(<<Head(ls)>>, current_tool_calls), Tail(ls))
OneByOneFrom(st, rest) == Item(st) \o OneByOne(rest, st.current_tool_calls)

\* C24: the chunks and errors the stream yields depend only on the sequence
\* of data lines, not on how the transport groups or cuts the bytes: they are
\* the ones the same data lines yield when each arrives whole in a transport
\* chunk of its own (a cut payload is decoded as one payload, a [DONE] line
\* yields nothing and changes nothing).
C24_FramingIndependent ==
    (Streaming /\ WellFramed) => emitted = OneByOne(DataLines(LinesReceived), {})

\* a decoded line whose delta lists tool calls and whose content field is
\* absent, null (both decode to None) or the empty string
ListsToolCalls(l) ==
    /\ HasChoice(l)
    /\ IsSome(l.choices[1].delta.tool_calls)
    /\ l.choices[1].delta.content \in {None, Some(<<>>)}

RECURSIVE ToolCallsListed(_)
\* the tool-call deltas listed by a sequence of such lines, in arrival order
ToolCallsListed(ls) ==
    IF Len(ls) = 0 THEN <<>>
    ELSE Head(ls).choices[1].delta.tool_calls[1] \o ToolCallsListed(Tail(ls))

\* C25: a decoded chunk whose delta lists tool_calls updates the accumulator
\* of each listed index and emits a ToolCallDelta, whatever its content field:
\* in a response whose transport chunks each hold one such line, every chunk
\* yields a ToolCallDelta with one entry per listed delta and the accumulator
\* is what all the listed deltas build.
C25_ToolCallsWhateverContent ==
    (/\ Streaming
     /\ \A c \in 1..Len(received) :
            Len(received[c]) = 1 /\ ListsToolCalls(received[c][1]))
        => /\ Len(emitted) = Len(received)
           /\ \A c \in 1..Len(emitted) :
                 /\ emitted[c].ok
                 /\ emitted[c].val.delta.kind = "ToolCallDelta"
                 /\ Len(emitted[c].val.delta.deltas)
                        = Len(received[c][1].choices[1].delta.tool_calls[1])
           /\ Unwrap(tool_call_aggregator)
                 = ApplyToolDeltas(ToolCallsListed(LinesReceived),
                                   [map |-> {}, generic_deltas |-> <<>>]).map

\* the arguments accumulated for index i in a map, empty if there are none
ArgsOf(current_tool_calls, i) ==
    IF \E e \in current_tool_calls :
          e.index = i /\ IsSome(e.function) /\ IsSome(Unwrap(e.function).arguments)
    THEN Unwrap(Unwrap((CHOOSE e \in current_tool_calls : e.index = i).function).arguments)
    ELSE <<>>

\* the step processed a transport chunk made of tool-call delta lines
ToolChunkProcessed ==
    /\ Len(received') = Len(received) + 1
    /\ \A k \in 1..Len(received'[Len(received')]) : IsToolLine(received'[Len(received')][k])

\* entries of the indices that listed does not name are the same in both maps
SameElsewhere(old, new, listed) ==
    \A e \in old \cup new :
        (\A k \in 1..Len(listed) : listed[k].index # e.index) => (e \in old /\ e \in new)

\* the entries d are the states of the indices of listed, in listed order,
\* after each delta was appended to what old held for its index
StatesInListedOrder(d, old, new, listed) ==
    /\ Len(d) = Len(listed)
    /\ \A k \in 1..Len(listed) :
          /\ d[k].index = listed[k].index
          /\ d[k] \in new
          /\ ArgsOf({d[k]}, d[k].index)
                = ArgsOf(old, listed[k].index) \o FragmentsFor(<<listed[k]>>, listed[k].index)

----------------------------------------------------------------------------
(* Properties of concurrent streams and invocations *)

RECURSIVE EmittedAlone(_, _), EmittedAloneFrom(_, _)
\* what a stream yields for a sequence of transport chunks when it is the only
\* stream, starting with the map current_tool_calls
EmittedAlone(chunks, current_tool_calls) ==
    IF Len(chunks) = 0 THEN <<>>
    ELSE EmittedAloneFrom(Closure(Head(chunks), current_tool_calls), Tail(chunks))
EmittedAloneFrom(st, rest) == Item(st) \o EmittedAlone(rest, st.current_tool_calls)

RECURSIVE MapAlone(_, _)
\* the map of a stream after a sequence of transport chunks when it is the
\* only stream
MapAlone(chunks, current_tool_calls) ==
    IF Len(chunks) = 0 THEN current_tool_calls
    ELSE MapAlone(Tail(chunks), Closure(Head(chunks), current_tool_calls).current_tool_calls)

\* C21: every completion_stream call owns a fresh accumulator: two streams of
\* one provider, consumed in any interleaving, each yield the chunks and hold
\* the accumulator that their own transport chunks give when the stream runs
\* alone.
C21_StreamsIndependent ==
    \A s \in StreamIds :
        streams[s].spc # "none"
            => /\ streams[s].emitted = EmittedAlone(streams[s].received, {})
               /\ streams[s].tool_call_aggregator
                      = Some(MapAlone(streams[s].received, {}))

\* both streams are being consumed; each accumulated fragments for index 0
\* and they differ
C21_Witness ==
    /\ streams["s1"].spc = "streaming"
    /\ streams["s2"].spc = "streaming"
    /\ streams["s1"].received = << <<T0a>>, <<T0b>> >>
    /\ streams["s2"].received = << <<T0b>>, <<T0a, T1x>> >>
    /\ ArgsOf(Unwrap(streams["s1"].tool_call_aggregator), 0) = <<"{\"city\":", "1}">>
    /\ ArgsOf(Unwrap(streams["s2"].tool_call_aggregator), 0) = <<"1}", "{\"city\":">>
    /\ Len(streams["s1"].emitted) = 2
    /\ Len(streams["s2"].emitted) = 2

\* the transcript of invocation c holds the seed of its own task followed by
\* the turns that c itself built, and the request it has in flight is that
\* transcript
OwnConversation(c) ==
    invocations[c].attempt >= 1
        => /\ invocations[c].messages = invocations[c].pushed
           /\ SubSeq(invocations[c].messages, 1, Len(Seed(CallTasks[c]))) = Seed(CallTasks[c])
           /\ \A k \in 1..Len(invocations[c].messages) :
                 \A d \in CallIds \ {c} :
                    ~(/\ IsSome(invocations[c].messages[k].content)
                      /\ Contains(Unwrap(invocations[c].messages[k].content),
                                  <<"TASK: ">> \o CallTasks[d].description))
           /\ invocations[c].pc = "inflight" => invocations[c].request = invocations[c].messages

\* a step changes the locals of one invocation at most
OneInvocationChanged ==
    \A c \in CallIds :
        invocations'[c] # invocations[c]
            => \A d \in CallIds \ {c} : invocations'[d] = invocations[d]

\* C22: two concurrent Agent::call invocations on one Agent share no mutable
\* state: in every interleaving each invocation's transcript holds only the
\* messages of its own conversation, a step of one invocation changes nothing
\* of the other, and each invocation counts its own attempts, at most 3.
C22_InvocationsIndependent ==
    /\ [](\A c \in CallIds : OwnConversation(c))
    /\ [](\A c \in CallIds : invocations[c].attempt <= MAX_RETRIES)
    /\ [][OneInvocationChanged]_vars
    /\ [][\A c \in CallIds :
             invocations'[c].attempt # invocations[c].attempt
                => /\ invocations[c].pc = "loop"
                   /\ invocations'[c].attempt = invocations[c].attempt + 1]_vars

\* c1 is in its third attempt with a request in flight after a tool round, c2
\* is in its first attempt executing tools
C22_Witness ==
    /\ invocations["c1"].pc = "inflight"
    /\ invocations["c1"].attempt = MAX_RETRIES
    /\ invocations["c1"].rounds = 1
    /\ Len(invocations["c1"].request) = 6
    /\ invocations["c2"].pc = "tools"
    /\ invocations["c2"].attempt = 1
    /\ Len(invocations["c2"].messages) = 5
    /\ invocations["c2"].next_call = 2
    /\ invocations["c2"].messages[3] = Seed(CallTasks["c2"])[3]
    /\ invocations["c1"].request[3] = Seed(CallTasks["c1"])[3]

----------------------------------------------------------------------------
(* Properties of Agent::call on an OpenAIProvider *)

\* the body of the 2xx response that the pending completion call received
BodyReceived == Unwrap(http_response).body

\* completion has returned to execute_with_llm, which has not yet looked at
\* the value
CompletionReturned == pc = "inflight" /\ ppc = "returned" /\ op = "completion"

\* completion has returned a ToolCall result with an empty call list
EmptyToolCallReturned ==
    /\ CompletionReturned
    /\ Unwrap(ret).ok
    /\ Unwrap(ret).val.kind.kind = "ToolCall"
    /\ Unwrap(ret).val.kind.tool_calls = <<>>

\* the last turn of a message list is an Assistant turn with an empty call list
EndsWithEmptyCalls(m) ==
    /\ Len(m) > Len(Seed(task))
    /\ m[Len(m)] = ChatMessage("assistant", None, Some(<<>>), None)

\* C31: a ToolCall result with an empty call list (what the adapter returns
\* for finish_reason "tool_calls" with neither content nor calls) does not
\* block or fail the loop: the loop appends one Assistant turn with an empty
\* tool_calls list and no Tool turn, and then issues another completion
\* request in the same attempt, with no retry budget used and nothing returned.
C31_EmptyToolCallGoesOn ==
    /\ []((CompletionReturned /\ IsSome(http_response) /\ Unwrap(http_response).status = 200
             /\ BodyReceived.kind = "json" /\ Len(BodyReceived.choices) > 0
             /\ BodyReceived.choices[1] = OpenAIChoice(None, None, Some("tool_calls")))
            => EmptyToolCallReturned)
    /\ [][(EmptyToolCallReturned /\ agent_vars' # agent_vars)
            => /\ pc' = "await"
               /\ messages' = Append(messages, ChatMessage("assistant", None, Some(<<>>), None))
               /\ executed' = <<>>
               /\ attempt' = attempt
               /\ nSeeds' = nSeeds
               /\ result' = None]_vars
    /\ [][(pc = "await" /\ EndsWithEmptyCalls(messages) /\ agent_vars' # agent_vars)
            => /\ pc' = "inflight"
               /\ request' = messages
               /\ attempt' = attempt
               /\ reqInAttempt' = reqInAttempt + 1
               /\ result' = None]_vars
    /\ EmptyToolCallReturned
          ~> (pc = "inflight" /\ EndsWithEmptyCalls(request) /\ ppc = "sent")

\* in the second attempt, the request after an empty ToolCall result is with
\* the vendor
C31_Witness ==
    /\ pc = "inflight"
    /\ ppc = "sent"
    /\ attempt = 2
    /\ reqInAttempt = 2
    /\ rounds = 1
    /\ Len(request) = Len(Seed(task)) + 1
    /\ EndsWithEmptyCalls(request)

\* the pending completion call received a 2xx response whose first choice
\* lists tool calls
ToolCallsAnswered ==
    /\ ppc = "returned"
    /\ op = "completion"
    /\ IsSome(http_response)
    /\ Unwrap(http_response).status = 200
    /\ BodyReceived.kind = "json"
    /\ Len(BodyReceived.choices) > 0
    /\ IsSome(BodyReceived.choices[1].message.tool_calls)

\* the tool-call entries of the vendor's first choice
VendorCalls == Unwrap(BodyReceived.choices[1].message.tool_calls)

\* the ToolCallRequest c has the id, name and arguments of the vendor entry vc
SameCall(c, vc) ==
    /\ c.id = vc.id
    /\ c.function.name = vc.function.name
    /\ c.function.arguments = vc.function.arguments

\* the sequence cs has the entries of the vendor, in the vendor's order
SameCalls(cs) ==
    /\ Len(cs) = Len(VendorCalls)
    /\ \A i \in 1..Len(cs) : SameCall(cs[i], VendorCalls[i])

\* C32: a ToolCall result preserves the vendor's tool-call entries: same
\* number and order, each id, function name and arguments string unchanged;
\* and these are the values that the Assistant turn records and that
\* execute_tool receives, one call after the other.
C32_VendorCallsPreserved ==
    ToolCallsAnswered
        => /\ Unwrap(ret).ok
           /\ Unwrap(ret).val.kind.kind = "ToolCall"
           /\ SameCalls(Unwrap(ret).val.kind.tool_calls)
           /\ pc \in {"tools", "await"}
                 => /\ SameCalls(tool_calls)
                    /\ Len(messages) > Len(executed)
                    /\ messages[Len(messages) - Len(executed)].role = "assistant"
                    /\ IsSome(messages[Len(messages) - Len(executed)].tool_calls)
                    /\ SameCalls(Unwrap(messages[Len(messages) - Len(executed)].tool_calls))
                    /\ Len(executed) <= Len(VendorCalls)
                    /\ \A k \in 1..Len(executed) : SameCall(executed[k].call, VendorCalls[k])
                    /\ pc = "await" => Len(executed) = Len(VendorCalls)

\* the first of the vendor's two calls was executed with the vendor's arguments
C32_Witness ==
    /\ ToolCallsAnswered
    /\ VendorCalls = <<VC2, VC1>>
    /\ pc = "tools"
    /\ next_call = 2
    /\ Len(executed) = 1
    /\ executed[1].call.id = <<"call_2">>
    /\ executed[1].call.function.name = <<"get_weather">>
    /\ executed[1].call.function.arguments = <<"{\"city\":1}">>

\* the pending completion call received a 2xx response without choices
EmptyChoicesAnswered ==
    /\ ppc = "returned"
    /\ op = "completion"
    /\ IsSome(http_response)
    /\ Unwrap(http_response).status = 200
    /\ BodyReceived.kind = "json"
    /\ Len(BodyReceived.choices) = 0

\* the step that Agent::call takes on a provider failure with Display text:
\* the attempt ends; the call goes on to the next attempt, or returns the error
\* when this was the last one
AttemptEndsWith(text) ==
    /\ lastEnd' = [kind |-> "provider", err |-> text, attempt |-> attempt]
    /\ attempt' = attempt
    /\ messages' = messages
    /\ IF attempt < MAX_RETRIES
       THEN pc' = "loop" /\ result' = None
       ELSE pc' = "done" /\ result' = Some(Err(ErrLLM(text)))

\* C33: a 2xx completion response whose choices list is empty yields
\* ParseError, never a Message or ToolCall result, and the agent loop treats
\* it like every other provider failure: the attempt ends, and the call goes on
\* with a new attempt from the seed while attempts remain.
C33_EmptyChoicesIsParseError ==
    /\ [](EmptyChoicesAnswered
            => ret = Some(Err(ParseError(<<"No choices found in OpenAI response">>))))
    /\ [][(CompletionReturned /\ ~Unwrap(ret).ok /\ agent_vars' # agent_vars)
            => AttemptEndsWith(Display(Unwrap(ret).val))]_vars
    /\ []((EmptyChoicesAnswered /\ pc = "await")
            => /\ lastEnd.kind = "provider"
               /\ attempt = lastEnd.attempt + 1
               /\ messages = Seed(task))

\* the second attempt has begun after a response without choices
C33_Witness ==
    /\ EmptyChoicesAnswered
    /\ pc = "await"
    /\ attempt = 2
    /\ reqInAttempt = 0
    /\ lastEnd.err = <<"Failed to parse API response: ", "No choices found in OpenAI response">>
    /\ messages = Seed(task)

----------------------------------------------------------------------------
(* Where Agent::call returns its errors *)

\* C38: Agent::call returns Err only at the end of attempt 3: nothing is
\* returned as an error during attempts 1 and 2, and the loop head is never
\* reached with the three attempts used up, so the error "Maximum retry
\* attempts exceeded" after the loop is never returned.
C38_ErrOnlyAfterThirdAttempt ==
    /\ (IsSome(result) /\ ~Unwrap(result).ok)
          => /\ pc = "done"
             /\ attempt = MAX_RETRIES
             /\ lastEnd.attempt = MAX_RETRIES
             /\ lastEnd.kind \in {"provider", "validation"}
             /\ Unwrap(result).val # ErrFallThrough
    /\ attempt < MAX_RETRIES => (result = None \/ Unwrap(result).ok)
    /\ pc = "loop" => attempt < MAX_RETRIES

\* the call returned the validation error of its third attempt
C38_Witness ==
    /\ pc = "done"
    /\ attempt = MAX_RETRIES
    /\ IsSome(result)
    /\ ~Unwrap(result).ok
    /\ lastEnd.kind = "validation"
    /\ nValidations = MAX_RETRIES
    /\ Unwrap(result).val[1] = "Output validation failed after "

----------------------------------------------------------------------------
(* Properties of get_provider *)

\* what get_provider is expected to return for a configuration, by provider
\* and by the presence of the API key and of the base URL
ExpectedOfGetProvider(c, r) ==
    CASE c.provider \in {"OpenAI", "Anthropic"} /\ c.api_key = None ->
             r = Err(ConfigError(<<"Missing API key for provider: ", c.provider>>))
      [] c.provider = "Custom" /\ c.base_url = None ->
             r = Err(ConfigError(<<"Missing base URL for custom provider">>))
      [] c.provider = "Anthropic" /\ c.api_key # None ->
             r = Err(Unsupported(<<"Anthropic provider not yet implemented">>))
      [] c.provider = "Custom" /\ c.base_url # None ->
             r = Err(Unsupported(<<"Custom provider logic not yet implemented">>))
      [] c.provider = "Ollama" ->
             r.ok /\ r.val.kind = "OllamaProvider" /\ r.val.config = c
      [] c.provider = "OpenAI" /\ c.api_key # None ->
             r.ok /\ r.val.kind = "OpenAIProvider" /\ r.val.config = c
                  /\ r.val.api_key = Unwrap(c.api_key)

\* C34: get_provider validates before it selects: OpenAI or Anthropic without
\* an API key and Custom without a base URL return a ConfigError, Anthropic
\* with a key and Custom with a base URL return Unsupported, Ollama returns a
\* provider whatever its key and URL; no constructor runs on a configuration
\* that failed validation, so OpenAIProvider::new never receives a
\* configuration without an API key and never panics on the missing key.
C34_ValidatedBeforeSelected ==
    /\ factory.pc = "returned" => ExpectedOfGetProvider(factory.config, Unwrap(factory.ret))
    /\ factory.pc = "validated" => validate(factory.config).ok
    /\ \A k \in 1..Len(factory.constructed) :
           /\ validate(factory.constructed[k]).ok
           /\ factory.constructed[k].provider = "OpenAI"
                 => factory.constructed[k].api_key # None
    /\ factory.panic # Some("OpenAI provider requires an API key")
    /\ factory.config.provider = "Ollama" => factory.pc # "panicked"

\* get_provider returned for each of the claim's cases
C34_Witness ==
    /\ factory.pc = "returned"
    /\ factory.config.provider = "OpenAI"
    /\ factory.config.api_key = Some("sk-2")
    /\ factory.config.base_url = None
    /\ Unwrap(factory.ret).ok
    /\ Unwrap(factory.ret).val.base_url = OPENAI_BASE_URL
    /\ factory.constructed = <<factory.config>>

----------------------------------------------------------------------------
(* Properties of Crew::run *)

\* run_sequential has passed its check of the two lists
SequentialRun ==
    /\ crew.workflow = "Sequential"
    /\ crew.agents > 0
    /\ Len(crew.tasks) > 0
    /\ crew.pc \in {"loop", "awaiting", "returned"}

\* the description task k is expected to be called with: its own for the first
\* task, then the output of task k-1 under its header, a separator and the
\* task's own description
ExpectedDescription(k) ==
    IF k = 1
    THEN crew.tasks[1].description
    ELSE CrewText("previous") \o crew.results[k - 1] \o CrewText("original")
         \o crew.tasks[k].description

CrewFailed == crew.pc = "returned" /\ ~Unwrap(crew.ret).ok

\* C35: a sequential run calls the first agent once per task, in list order,
\* and calls it for task n+1 only when task n has returned Ok; the description
\* of the call for task n+1 is the output of task n (no earlier output)
\* followed by the original description of task n+1; the run returns the
\* output of the last task.
C35_InOrderHandOff ==
    /\ [](SequentialRun =>
            /\ Len(crew.called) <= Len(crew.tasks)
            /\ \A k \in 1..Len(crew.called) :
                   /\ crew.called[k].agent = 1
                   /\ crew.called[k].task.description = ExpectedDescription(k)
                   /\ crew.called[k].task.expected_output = crew.tasks[k].expected_output
            /\ Len(crew.results) = IF crew.pc = "awaiting" \/ CrewFailed
                                   THEN Len(crew.called) - 1
                                   ELSE Len(crew.called)
            /\ (crew.pc = "returned" /\ Unwrap(crew.ret).ok) =>
                   /\ Len(crew.results) = Len(crew.tasks)
                   /\ Unwrap(crew.ret).val = crew.results[Len(crew.tasks)])
    /\ [][(crew.called' # crew.called) =>
             /\ Len(crew.called') = Len(crew.called) + 1
             /\ Len(crew.results) = Len(crew.called)
             /\ crew.pc = "loop"]_vars

\* three tasks ran, the first two with different outputs: the third call
\* carries the second output and not the first
C35_Witness ==
    /\ SequentialRun
    /\ crew.pc = "returned"
    /\ Unwrap(crew.ret).ok
    /\ Len(crew.called) >= 3
    /\ crew.results[1] # crew.results[2]
    /\ crew.tasks[2] # crew.tasks[3]
    /\ Contains(crew.called[3].task.description, crew.results[2])
    /\ ~Contains(crew.called[3].task.description, crew.results[1])
    /\ Unwrap(crew.ret).val = crew.results[Len(crew.tasks)]

C37_EmptyListsNoCall ==
    (crew.workflow = "Sequential" /\ (crew.agents = 0 \/ Len(crew.tasks) = 0)) =>
        /\ crew.pc \in {"called", "returned"}
        /\ crew.called = <<>>
        /\ pc = "done" /\ nRequests = 0 /\ http_requests = 0
        /\ crew.pc = "returned" => crew.ret = Some(Ok(CrewText("empty")))

\* a Crew with tasks and no agent has returned
C37_Witness ==
    /\ crew.workflow = "Sequential"
    /\ crew.agents = 0
    /\ Len(crew.tasks) > 0
    /\ crew.pc = "returned"
    /\ Unwrap(crew.ret).ok

====
